---- MODULE Spec2Model ----
(***************************************************************************)
(* Model of the tt time tracker (package internal/db): the event-log       *)
(* store of one replica, the Interval Engine operations that write it      *)
(* (db.go) and the Sync round that merges a replica with the relay         *)
(* (syncer.go).                                                            *)
(*                                                                         *)
(* A store is a record of its tables, each table a set of rows.  Rows are  *)
(* records named after the SQL columns.  Timestamps are Unix seconds.      *)
(* uuid() is modelled by one counter per replica: every call returns a     *)
(* value never returned before, on any replica.                            *)
(***************************************************************************)
EXTENDS Integers, Sequences, FiniteSets, TLC

\* ---- bounds of the model -------------------------------------------------
\* start/stop timestamps an operation may be given: 1..MaxTime
MaxTime == 2
\* the wall clock reads 1..MaxClock (it never goes back)
MaxClock == 2
\* number of uuid() calls over a whole behaviour of Spec
MaxUUID == 3
\* number of uuid() calls over a whole behaviour of SpecLocal
MaxUUIDLocal == 5
\* number of uuid() calls over a whole behaviour of SpecSameSecond
MaxUUIDSameSecond == 4
MaxUUIDSelect == 3
\* longest tag list given to Start, Tag or Untag
MaxTagList == 2
\* longest duration given to StopFor, in seconds
MaxDuration == 2
\* TestSyncQuick: the last second of the clock and the greatest timeOffset
MaxQuickClock == 7
MaxTimeOffset == 2

Replicas == {"r1", "r2"}
Relay == "relay"
Stores == Replicas \cup {Relay}
TagNames == {"a", "b"}
Times == 1..MaxTime
Clock == 1..MaxClock
\* durations given to StopFor, in seconds (zero and negative included)
Durations == (0 - 1)..MaxDuration

\* an optional value: << >> is absent (a zero time.Time, an SQL NULL),
\* <<v>> is the value v
Opt(S) == {<< >>} \cup {<<v>> : v \in S}

RECURSIVE SeqsUpTo(_, _)
SeqsUpTo(S, n) ==
    IF n = 0 THEN {<< >>}
    ELSE LET shorter == SeqsUpTo(S, n - 1)
         IN shorter \cup {Append(q, x) : q \in {p \in shorter : Len(p) = n - 1}, x \in S}

TagLists == SeqsUpTo(TagNames, MaxTagList)

\* ---- errors (errors.go) --------------------------------------------------
ErrDuplicatedIntervalTag == "ErrDuplicatedIntervalTag"
ErrExistingOpenInterval == "ErrExistingOpenInterval"
ErrInvalidParam == "ErrInvalidParam"
ErrInvalidStartTimestamp == "ErrInvalidStartTimestamp"
ErrInvalidStopTimestamp == "ErrInvalidStopTimestamp"
ErrMultipleOpenInterval == "ErrMultipleOpenInterval"
ErrNotFound == "ErrNotFound"
\* database/sql's ErrNoRows, returned by Scan on an empty result
ErrNoRows == "sql.ErrNoRows"
\* a foreign key violation reported by the SQL engine
ErrForeignKey == "foreign key violation"
\* the error of a statement the database driver could not run
ErrDriver == "driver error"
nil == "nil"

VARIABLES
    store,      \* store[s]: the committed tables of store s
    now,        \* the wall clock, in seconds
    nextUUID,   \* nextUUID[r]: the number of the next uuid() call on replica r
    phase,      \* history: how far the run is into "local operations, then
                \* sync r1, sync r2, sync r1"
    quick       \* the variables of TestSyncQuick: started[r] (tt1Started,
                \* tt2Started), synced, and failed once a require stopped it

vars == <<store, now, nextUUID, phase, quick>>

\* ---- schema --------------------------------------------------------------
\* The tables of a store, empty.  dialect tells the local sqlite schema (its
\* interval_start has an AUTOINCREMENT id) from the relay's postgres schema.
EmptyDB(dialect) ==
    [dialect |-> dialect,
     tags |-> {},
     interval_start |-> {},
     interval_stop |-> {},
     interval_tombstone |-> {},
     interval_tags |-> {},
     interval_tags_tombstone |-> {},
     sync_history |-> {}]

\* ---- derived views -------------------------------------------------------
\* interval_start LEFT JOIN interval_tombstone ... WHERE interval_tombstone.uuid IS NULL
Tombstoned(db, startUUID) ==
    \E x \in db.interval_tombstone : x.start_uuid = startUUID

\* interval_start without the join on interval_tombstone
AllStarts(db) == db.interval_start

LiveStarts(db) == {s \in db.interval_start : ~Tombstoned(db, s.uuid)}

Stops(db, startUUID) == {p \in db.interval_stop : p.start_uuid = startUUID}

OpenIntervals(db) == {s \in LiveStarts(db) : Stops(db, s.uuid) = {}}

\* interval_start INNER JOIN interval_stop, not tombstoned: one row per pair
ClosedIntervals(db) ==
    UNION {{[uuid |-> s.uuid, start_timestamp |-> s.start_timestamp,
             stop_timestamp |-> p.stop_timestamp] : p \in Stops(db, s.uuid)} :
           s \in LiveStarts(db)}

\* interval_tags LEFT JOIN interval_tags_tombstone ... WHERE interval_tags_tombstone.uuid IS NULL
EffectiveTags(db, startUUID) ==
    {g \in db.interval_tags :
        /\ g.interval_start_uuid = startUUID
        /\ ~\E x \in db.interval_tags_tombstone : x.interval_tag_uuid = g.uuid}

\* countOpenedInterval with INNER JOIN interval_tombstone in place of LEFT JOIN:
\* no row has a tombstone and a NULL interval_tombstone.uuid
countOpenedIntervalInnerJoin(db) ==
    Cardinality({s \in OpenIntervals(db) : Tombstoned(db, s.uuid)})

countOpenedInterval(db) == Cardinality(OpenIntervals(db))

\* the id an AUTOINCREMENT column gives the next row: nothing is ever deleted
NextID(db) == Cardinality(db.interval_start) + 1

\* ---- uuid() ------------------------------------------------------------------
\* A fresh uuid is <<r, n>>: the n-th value uuid() returned on replica r.  The
\* parameter u of an operation is the value its first uuid() call returns;
\* after(u, k) is the value returned after k more calls.
after(u, k) == <<u[1], u[2] + k>>

\* ---- results of an operation ---------------------------------------------
\* An operation runs in one transaction (completeTransaction): with an error
\* the transaction is rolled back and the tables are those before the call,
\* without one it commits.  used is the number of uuid() calls of a commit.
Fail(db, err) == [err |-> err, db |-> db, used |-> 0]
Commit(db, used) == [err |-> nil, db |-> db, used |-> used]

\* all the sequences that enumerate the set S, each element once
RECURSIVE Enumerations(_)
Enumerations(S) ==
    IF S = {} THEN {<< >>}
    ELSE UNION {{<<x>> \o q : q \in Enumerations(S \ {x})} : x \in S}

\* the rows of S in an order the SQL engine may return them without ORDER BY.
\* It only decides which fresh uuid each copied row gets.
SomeOrder(S) == CHOOSE q \in Enumerations(S) : TRUE

\* INSERT INTO tags (name, created_at) VALUES (?, ?) ON CONFLICT DO NOTHING
InsertTag(db, name, clk) ==
    IF \E g \in db.tags : g.name = name THEN db
    ELSE [db EXCEPT !.tags = @ \cup {[name |-> name, created_at |-> clk]}]

RECURSIVE InsertTags(_, _, _)
InsertTags(db, tags, clk) ==
    IF tags = << >> THEN db
    ELSE InsertTags(InsertTag(db, Head(tags), clk), Tail(tags), clk)

\* INSERT INTO interval_start (uuid, start_timestamp, created_at) VALUES (uuid(), ?, ?)
InsertNewIntervalStart(db, u, t, clk) ==
    [db EXCEPT !.interval_start = @ \cup
        {[id |-> NextID(db), uuid |-> u, start_timestamp |-> t, created_at |-> clk]}]

\* LinkTags on a table where (interval_start_uuid, tag) is UNIQUE, the INSERT
\* ignoring a conflict: a pair the table holds, tombstoned or not, gets no row
LinkTagsUniquePair(db, startUUID, tags, u, clk) ==
    [db EXCEPT !.interval_tags = @ \cup
        {[uuid |-> after(u, i - 1), interval_start_uuid |-> startUUID,
          tag |-> tags[i], created_at |-> clk] :
            i \in {j \in 1..Len(tags) :
                    ~\E g \in db.interval_tags :
                        g.interval_start_uuid = startUUID /\ g.tag = tags[j]}}]

\* one INSERT INTO interval_tags (uuid, interval_start_uuid, tag, created_at)
\* per element of tags, the i-th with the i-th fresh uuid from u
LinkTags(db, startUUID, tags, u, clk) ==
    [db EXCEPT !.interval_tags = @ \cup
        {[uuid |-> after(u, i - 1), interval_start_uuid |-> startUUID,
          tag |-> tags[i], created_at |-> clk] : i \in 1..Len(tags)}]

\* ---- Start ----------------------------------------------------------------
\* countOverlappingClosed with stop_timestamp >= ?1
countOverlappingClosedInclusive(db, t) ==
    Cardinality({c \in ClosedIntervals(db) :
        c.start_timestamp <= t /\ c.stop_timestamp >= t})

\* SELECT count(1) ... WHERE start_timestamp <= ?1 AND stop_timestamp > ?1
\*     AND interval_tombstone.uuid IS NULL
countOverlappingClosed(db, t) ==
    Cardinality({c \in ClosedIntervals(db) :
        c.start_timestamp <= t /\ c.stop_timestamp > t})

Start(db, t, tags, clk, u) ==
    IF countOpenedInterval(db) >= 1 THEN Fail(db, ErrExistingOpenInterval)
    ELSE IF countOverlappingClosed(db, t) >= 1 THEN Fail(db, ErrInvalidStartTimestamp)
    ELSE LET db1 == InsertTags(db, tags, clk)
             db2 == InsertNewIntervalStart(db1, u, t, clk)
             db3 == LinkTags(db2, u, tags, after(u, 1), clk)
         IN Commit(db3, 1 + Len(tags))

\* ---- stop, StopAt, StopFor ------------------------------------------------
\* countEnclosedStart with the start timestamp bound to both placeholders
countEnclosedStartSameBound(db, startTimestampUnix, t) ==
    Cardinality({s \in LiveStarts(db) :
        s.start_timestamp > startTimestampUnix /\ s.start_timestamp < startTimestampUnix})

\* countEnclosedStart with start_timestamp <= ? as the upper bound
countEnclosedStartInclusive(db, startTimestampUnix, t) ==
    Cardinality({s \in LiveStarts(db) :
        s.start_timestamp > startTimestampUnix /\ s.start_timestamp <= t})

\* SELECT count(1) FROM interval_start LEFT JOIN interval_tombstone ...
\* WHERE start_timestamp > ? AND start_timestamp < ? AND interval_tombstone.uuid IS NULL
countEnclosedStart(db, startTimestampUnix, t) ==
    Cardinality({s \in LiveStarts(db) :
        s.start_timestamp > startTimestampUnix /\ s.start_timestamp < t})

\* stopNotAfterStart with > in place of >=
stopBeforeStart(startTimestampUnix, t) == startTimestampUnix > t

\* startTimestampUnix >= t.Unix()
stopNotAfterStart(startTimestampUnix, t) == startTimestampUnix >= t

\* countOverOpened counting the rows after LIMIT 1 instead of before
countOverOpenedAfterLimit(db) == IF OpenIntervals(db) = {} THEN 0 ELSE 1

\* count(1) over() of SELECT ... FROM interval_start LEFT JOIN interval_stop ...
\* LEFT JOIN interval_tombstone ... WHERE stop_timestamp IS NULL
\*     AND interval_tombstone.created_at IS NULL LIMIT 1
countOverOpened(db) == Cardinality(OpenIntervals(db))

\* oneParameterSet refusing only the call that sets neither parameter
oneParameterSetOrBoth(t, d) == ~(t = << >> /\ d = 0)

\* the negation of the guard of stop: (!t.IsZero() && d != 0) || (t.IsZero() && d == 0)
oneParameterSet(t, d) == ~((t # << >> /\ d # 0) \/ (t = << >> /\ d = 0))

\* t is an optional time (<< >> is the zero time.Time), d a duration in seconds
stop(db, t, d, clk, u) ==
    IF ~oneParameterSet(t, d) THEN Fail(db, ErrInvalidParam)
    ELSE LET open == OpenIntervals(db)
         IN IF open = {} THEN Fail(db, ErrNoRows)
            ELSE IF countOverOpened(db) > 1 THEN Fail(db, ErrMultipleOpenInterval)
            ELSE LET row == CHOOSE s \in open : TRUE
                     startTimestampUnix == row.start_timestamp
                     tu == IF d # 0 THEN startTimestampUnix + d ELSE t[1]
                 IN IF stopNotAfterStart(startTimestampUnix, tu)
                        THEN Fail(db, ErrInvalidStopTimestamp)
                    ELSE IF countEnclosedStart(db, startTimestampUnix, tu) >= 1
                        THEN Fail(db, ErrInvalidStopTimestamp)
                    ELSE Commit([db EXCEPT !.interval_stop = @ \cup
                                    {[uuid |-> u, start_uuid |-> row.uuid,
                                      stop_timestamp |-> tu, created_at |-> clk]}], 1)

StopAt(db, t, clk, u) == stop(db, t, 0, clk, u)

StopFor(db, d, clk, u) == stop(db, << >>, d, clk, u)

\* ---- Continue -------------------------------------------------------------
\* SELECT count(1) FROM interval_start LEFT JOIN interval_stop ... LEFT JOIN
\* interval_tombstone ... WHERE interval_stop.uuid IS NULL
\*     AND interval_tombstone.uuid IS NULL
countOpenedContinue(db) == Cardinality(OpenIntervals(db))

\* SELECT count(1) FROM interval_start LEFT JOIN interval_stop ... LEFT JOIN
\* interval_tombstone ... WHERE interval_tombstone.uuid IS NULL
\*     AND start_timestamp <= ?1 AND stop_timestamp > ?1
\* (a row without interval_stop has a NULL stop_timestamp and is not counted)
countOverlappingContinue(db, t) ==
    Cardinality({c \in ClosedIntervals(db) :
        c.start_timestamp <= t /\ c.stop_timestamp > t})

\* The intervals the tag query of Continue may start from.  id is optional:
\* << >> is the empty string, and then the query takes the Live interval
\* first in ORDER BY start_timestamp DESC LIMIT 1 (any of them on a tie).
continueCandidates(db, id) ==
    IF id = << >>
        THEN {s \in LiveStarts(db) :
                \A o \in LiveStarts(db) : o.start_timestamp <= s.start_timestamp}
        ELSE {s \in LiveStarts(db) : s.id = id[1]}

\* continueRows without the filter on interval_tags_tombstone: every
\* interval_tags row of prev gives a row
continueRowsAllTags(db, prev) ==
    IF \A g \in db.interval_tags : g.interval_start_uuid # prev.uuid
        THEN <<[uuid |-> prev.uuid, tag |-> << >>]>>
        ELSE LET all == SomeOrder({g \in db.interval_tags :
                                    g.interval_start_uuid = prev.uuid})
             IN [i \in 1..Len(all) |-> [uuid |-> prev.uuid, tag |-> <<all[i].tag>>]]

\* The rows (uuid, tag) the tag query returns for the interval prev: prev LEFT
\* JOIN interval_tags LEFT JOIN interval_tags_tombstone WHERE
\* interval_tags_tombstone.uuid IS NULL.  An interval without any interval_tags
\* row gives one row with a NULL tag; an interval whose interval_tags rows all
\* have a tombstone gives no row at all.
continueRows(db, prev) ==
    IF \A g \in db.interval_tags : g.interval_start_uuid # prev.uuid
        THEN <<[uuid |-> prev.uuid, tag |-> << >>]>>
        ELSE LET eff == SomeOrder(EffectiveTags(db, prev.uuid))
             IN [i \in 1..Len(eff) |-> [uuid |-> prev.uuid, tag |-> <<eff[i].tag>>]]

\* the tags scanned from the rows: those that are not NULL
RECURSIVE validTags(_)
validTags(rows) ==
    IF rows = << >> THEN << >>
    ELSE Head(rows).tag \o validTags(Tail(rows))

\* Continue from the interval prev, the one the tag query starts from; prev is
\* << >> when the query finds no interval
continueFrom(db, t, prev, clk, u) ==
    IF countOpenedContinue(db) >= 1 THEN Fail(db, ErrMultipleOpenInterval)
    ELSE IF countOverlappingContinue(db, t) >= 1 THEN Fail(db, ErrInvalidStartTimestamp)
    ELSE LET rows == IF prev = << >> THEN << >> ELSE continueRows(db, prev[1])
             tags == validTags(rows)
         IN IF rows = << >> THEN Fail(db, ErrNotFound)
            ELSE LET db1 == InsertNewIntervalStart(db, u, t, clk)
                     db2 == LinkTags(db1, u, tags, after(u, 1), clk)
                 IN Commit(db2, 1 + Len(tags))

\* every result Continue(t, id) may return
Continue(db, t, id, clk, u) ==
    LET cands == continueCandidates(db, id)
    IN IF cands = {} THEN {continueFrom(db, t, << >>, clk, u)}
       ELSE {continueFrom(db, t, <<prev>>, clk, u) : prev \in cands}

\* ---- Tag, Untag, Delete ---------------------------------------------------
\* liveByID without the filter interval_tombstone.uuid IS NULL
startByID(db, id) == {s \in db.interval_start : s.id = id}

\* SELECT interval_start.uuid ... WHERE interval_tombstone.uuid IS NULL
\*     AND interval_start.id = ?
liveByID(db, id) == {s \in LiveStarts(db) : s.id = id}

\* countEffectiveTag without the join on interval_tags_tombstone
countIntervalTag(db, intervalUUID, tag) ==
    Cardinality({g \in db.interval_tags :
        g.interval_start_uuid = intervalUUID /\ g.tag = tag})

\* SELECT count(1) FROM interval_tags LEFT JOIN interval_tags_tombstone ...
\* WHERE interval_start_uuid = ? AND tag = ? AND interval_tags_tombstone.uuid IS NULL
countEffectiveTag(db, intervalUUID, tag) ==
    Cardinality({g \in EffectiveTags(db, intervalUUID) : g.tag = tag})

\* tagLoop that returns the error with the rows inserted so far kept
RECURSIVE tagLoopKeepsRows(_, _, _, _, _, _)
tagLoopKeepsRows(db0, db, intervalUUID, tags, clk, u) ==
    IF tags = << >> THEN Commit(db, 0)
    ELSE IF countEffectiveTag(db, intervalUUID, Head(tags)) >= 1
        THEN Fail(db, ErrDuplicatedIntervalTag)
    ELSE LET db1 == InsertTag(db, Head(tags), clk)
             db2 == LinkTags(db1, intervalUUID, <<Head(tags)>>, u, clk)
             rest == tagLoopKeepsRows(db0, db2, intervalUUID, Tail(tags), clk, after(u, 1))
         IN [rest EXCEPT !.used = IF rest.err = nil THEN @ + 1 ELSE 0]

\* the loop of Tag over the tags still to add; u is the next fresh uuid
RECURSIVE tagLoop(_, _, _, _, _, _)
tagLoop(db0, db, intervalUUID, tags, clk, u) ==
    IF tags = << >> THEN Commit(db, 0)
    ELSE IF countEffectiveTag(db, intervalUUID, Head(tags)) >= 1
        THEN Fail(db0, ErrDuplicatedIntervalTag)
    ELSE LET db1 == InsertTag(db, Head(tags), clk)
             db2 == LinkTags(db1, intervalUUID, <<Head(tags)>>, u, clk)
             rest == tagLoop(db0, db2, intervalUUID, Tail(tags), clk, after(u, 1))
         IN [rest EXCEPT !.used = IF rest.err = nil THEN @ + 1 ELSE 0]

Tag(db, id, tags, clk, u) ==
    LET found == liveByID(db, id)
    IN IF found = {} THEN Fail(db, ErrNoRows)
       ELSE tagLoop(db, db, (CHOOSE s \in found : TRUE).uuid, tags, clk, u)

\* toDelete without the filter interval_tags_tombstone.uuid IS NULL
toDeleteTombstonedToo(db, id, tag) ==
    UNION {{g \in db.interval_tags : g.interval_start_uuid = s.uuid /\ g.tag = tag} :
            s \in liveByID(db, id)}

\* WITH to_delete AS (SELECT interval_tags.uuid ... WHERE
\* interval_tags_tombstone.uuid IS NULL AND interval_tombstone.uuid IS NULL
\* AND interval_start.id = ? AND interval_tags.tag = ?)
toDelete(db, id, tag) ==
    UNION {{g \in EffectiveTags(db, s.uuid) : g.tag = tag} : s \in liveByID(db, id)}

\* INSERT INTO interval_tags_tombstone (uuid, interval_tag_uuid, created_at)
\* SELECT uuid(), uuid, ? FROM to_delete
RECURSIVE untagLoop(_, _, _, _, _)
untagLoop(db, id, tags, clk, u) ==
    IF tags = << >> THEN Commit(db, 0)
    ELSE LET del == SomeOrder(toDelete(db, id, Head(tags)))
             db1 == [db EXCEPT !.interval_tags_tombstone = @ \cup
                        {[uuid |-> after(u, i - 1), interval_tag_uuid |-> del[i].uuid,
                          created_at |-> clk] : i \in 1..Len(del)}]
             rest == untagLoop(db1, id, Tail(tags), clk, after(u, Len(del)))
         IN [rest EXCEPT !.used = @ + Len(del)]

\* Untag with DELETE FROM interval_tags in place of the tombstone
UntagHardDelete(db, id, tags, clk, u) ==
    IF liveByID(db, id) = {} THEN Fail(db, ErrNotFound)
    ELSE Commit([db EXCEPT !.interval_tags =
                    @ \ UNION {toDelete(db, id, tags[i]) : i \in 1..Len(tags)}], 0)

Untag(db, id, tags, clk, u) ==
    IF liveByID(db, id) = {} THEN Fail(db, ErrNotFound)
    ELSE untagLoop(db, id, tags, clk, u)

\* Delete when start_uuid may be NULL: the row of an unknown id is stored with
\* a NULL start_uuid (<< >>)
DeleteNullStartUUID(db, id, clk, u) ==
    LET found == {s \in db.interval_start : s.id = id}
    IN IF found = {}
          THEN Commit([db EXCEPT !.interval_tombstone = @ \cup
                        {[uuid |-> u, start_uuid |-> << >>, created_at |-> clk]}], 1)
       ELSE LET s == CHOOSE x \in found : TRUE
            IN IF Tombstoned(db, s.uuid) THEN Commit(db, 0)
               ELSE Commit([db EXCEPT !.interval_tombstone = @ \cup
                        {[uuid |-> u, start_uuid |-> s.uuid, created_at |-> clk]}], 1)

\* Delete with INSERT OR REPLACE: an interval already deleted gets its
\* tombstone again under a new uuid, next to the rows a relay may still send
DeleteAgain(db, id, clk, u) ==
    LET found == {s \in db.interval_start : s.id = id}
    IN IF found = {} THEN Commit(db, 0)
       ELSE Commit([db EXCEPT !.interval_tombstone = @ \cup
                {[uuid |-> u, start_uuid |-> (CHOOSE x \in found : TRUE).uuid,
                  created_at |-> clk]}], 1)

\* Delete with a plain INSERT: the NULL start_uuid of an unknown id breaks the
\* NOT NULL constraint and the statement fails
DeletePlainInsert(db, id, clk, u) ==
    LET found == {s \in db.interval_start : s.id = id}
    IN IF found = {} \/ \E s \in found : Tombstoned(db, s.uuid)
          THEN Fail(db, ErrDriver)
       ELSE Commit([db EXCEPT !.interval_tombstone = @ \cup
                {[uuid |-> u, start_uuid |-> (CHOOSE x \in found : TRUE).uuid,
                  created_at |-> clk]}], 1)

\* INSERT OR IGNORE INTO interval_tombstone (uuid, start_uuid, created_at)
\* SELECT uuid(), (SELECT uuid FROM interval_start WHERE id = ?), ?
\* The row is ignored when the subquery is NULL (start_uuid is NOT NULL) and
\* when the interval already has a tombstone (start_uuid is UNIQUE).
Delete(db, id, clk, u) ==
    LET found == {s \in db.interval_start : s.id = id}
    IN IF found = {} THEN Commit(db, 0)
       ELSE LET s == CHOOSE x \in found : TRUE
            IN IF Tombstoned(db, s.uuid) THEN Commit(db, 0)
               ELSE Commit([db EXCEPT !.interval_tombstone = @ \cup
                        {[uuid |-> u, start_uuid |-> s.uuid, created_at |-> clk]}], 1)

\* ---- List ------------------------------------------------------------------
\* getIntervalTags without the join on interval_tags_tombstone
getAllIntervalTags(db, intervalUUID) ==
    [name \in TagNames |->
        Cardinality({g \in db.interval_tags :
            g.interval_start_uuid = intervalUUID /\ g.tag = name})]

\* the tags getIntervalTags returns for an interval, counted by name
\* (the rows come without ORDER BY)
getIntervalTags(db, intervalUUID) ==
    [name \in TagNames |-> countEffectiveTag(db, intervalUUID, name)]

\* The rows of List(since, until), each with its tags: the Live intervals with
\* start_timestamp or stop_timestamp in [since, until), or without stop.
\* stop_timestamp is optional (<< >> for an interval without interval_stop).
List(db, since, until) ==
    LET joined == UNION {
            IF Stops(db, s.uuid) = {}
                THEN {[id |-> s.id, uuid |-> s.uuid,
                       start_timestamp |-> s.start_timestamp, stop_timestamp |-> << >>]}
                ELSE {[id |-> s.id, uuid |-> s.uuid,
                       start_timestamp |-> s.start_timestamp,
                       stop_timestamp |-> <<p.stop_timestamp>>] : p \in Stops(db, s.uuid)}
            : s \in LiveStarts(db)}
        kept == {x \in joined :
                    \/ x.start_timestamp >= since /\ x.start_timestamp < until
                    \/ /\ x.stop_timestamp # << >>
                       /\ x.stop_timestamp[1] >= since /\ x.stop_timestamp[1] < until
                    \/ x.stop_timestamp = << >>}
    IN {[id |-> x.id, uuid |-> x.uuid, start_timestamp |-> x.start_timestamp,
         stop_timestamp |-> x.stop_timestamp,
         tags |-> getIntervalTags(db, x.uuid)] : x \in kept}

\* The slices List(since, until) may return: the rows in ORDER BY
\* start_timestamp, rows with equal start_timestamp in any order.
ListOrdered(db, since, until) ==
    {q \in Enumerations(List(db, since, until)) :
        \A i, j \in 1..Len(q) : i < j => q[i].start_timestamp <= q[j].start_timestamp}

\* ---- Current ---------------------------------------------------------------
\* SELECT tag FROM interval_tags WHERE interval_start_uuid = ?
\* the tags scanned, as the number of rows per name
currentTags(db, intervalUUID) ==
    [name \in TagNames |->
        Cardinality({g \in db.interval_tags :
            g.interval_start_uuid = intervalUUID /\ g.tag = name})]

\* Every value Current may return: << >> is the nil interval of sql.ErrNoRows;
\* QueryRow scans the first row of the Open intervals, in no stated order.
Current(db) ==
    IF OpenIntervals(db) = {} THEN {<< >>}
    ELSE {<<[id |-> s.id, uuid |-> s.uuid, start_timestamp |-> s.start_timestamp,
             tags |-> currentTags(db, s.uuid)]>> : s \in OpenIntervals(db)}

\* ---- Sync: rows new since the last sync -------------------------------------
Max(S) == CHOOSE x \in S : \A y \in S : y <= x

\* SELECT max(sync_timestamp) FROM sync_history: << >> when it never synced
getLastSyncTimestamp(db) ==
    IF db.sync_history = {} THEN << >> ELSE <<Max(db.sync_history)>>

\* CREATE TEMP TABLE sync_history on the relay connection, holding lastSync
\* unless it is zero.  The table lives as long as the connection of the round.
setupLastSyncTimestamp(db, lastSync) ==
    [db EXCEPT !.sync_history = IF lastSync = << >> THEN {} ELSE {lastSync[1]}]

\* newSince with created_at > last_timestamp
newSinceStrict(db, table) ==
    LET lastSync == getLastSyncTimestamp(db)
    IN {x \in table : lastSync = << >> \/ x.created_at > lastSync[1]}

\* ... JOIN last_sync ON (last_timestamp IS NULL OR created_at >= last_timestamp)
newSince(db, table) ==
    LET lastSync == getLastSyncTimestamp(db)
    IN {x \in table : lastSync = << >> \/ x.created_at >= lastSync[1]}

\* the sequences ORDER BY created_at may return for the rows S
orderedByCreatedAt(S) ==
    {q \in Enumerations(S) :
        \A i, j \in 1..Len(q) : i < j => q[i].created_at <= q[j].created_at}

\* the names of the new tags (one order of ORDER BY created_at, name: the tags
\* table has no column an insertion order shows in)
getNewTags(db) ==
    LET q == CHOOSE x \in orderedByCreatedAt(newSince(db, db.tags)) : TRUE
    IN [i \in 1..Len(q) |-> q[i].name]

storeNewTags(db, tags, clk) == InsertTags(db, tags, clk)

\* every sequence of intervalStartRow the query may return
getNewIntervalStart(db) ==
    orderedByCreatedAt({[uuid |-> s.uuid, start_timestamp |-> s.start_timestamp,
                         created_at |-> s.created_at] :
                            s \in newSince(db, db.interval_start)})

\* INSERT INTO interval_start ... ON CONFLICT DO NOTHING, row after row.  The
\* sqlite table numbers the rows it takes; the postgres table has no id.
\* storeNewIntervalStart with ON CONFLICT (uuid) DO UPDATE SET created_at
RECURSIVE storeNewIntervalStartUpsert(_, _, _)
storeNewIntervalStartUpsert(db, rows, clk) ==
    IF rows = << >> THEN db
    ELSE LET r == Head(rows)
             row == IF db.dialect = "sqlite"
                       THEN [id |-> NextID(db), uuid |-> r.uuid,
                             start_timestamp |-> r.start_timestamp, created_at |-> clk]
                       ELSE [uuid |-> r.uuid,
                             start_timestamp |-> r.start_timestamp, created_at |-> clk]
             db1 == IF \E s \in db.interval_start : s.uuid = r.uuid
                       THEN [db EXCEPT !.interval_start =
                                {IF s.uuid = r.uuid THEN [s EXCEPT !.created_at = clk] ELSE s :
                                    s \in @}]
                    ELSE [db EXCEPT !.interval_start = @ \cup {row}]
         IN storeNewIntervalStartUpsert(db1, Tail(rows), clk)

RECURSIVE storeNewIntervalStart(_, _, _)
storeNewIntervalStart(db, rows, clk) ==
    IF rows = << >> THEN db
    ELSE LET r == Head(rows)
             row == IF db.dialect = "sqlite"
                       THEN [id |-> NextID(db), uuid |-> r.uuid,
                             start_timestamp |-> r.start_timestamp, created_at |-> clk]
                       ELSE [uuid |-> r.uuid,
                             start_timestamp |-> r.start_timestamp, created_at |-> clk]
             db1 == IF \E s \in db.interval_start : s.uuid = r.uuid THEN db
                    ELSE [db EXCEPT !.interval_start = @ \cup {row}]
         IN storeNewIntervalStart(db1, Tail(rows), clk)

\* one of the sequences the query may return: for the tables below the order
\* of the rows does not show in what the round stores
getNewIntervalStop(db) ==
    CHOOSE q \in orderedByCreatedAt(newSince(db, db.interval_stop)) : TRUE

getNewIntervalTombstone(db) ==
    CHOOSE q \in orderedByCreatedAt(newSince(db, db.interval_tombstone)) : TRUE

getNewIntervalTags(db) ==
    CHOOSE q \in orderedByCreatedAt(newSince(db, db.interval_tags)) : TRUE

getNewIntervalTagsTombstone(db) ==
    CHOOSE q \in orderedByCreatedAt(newSince(db, db.interval_tags_tombstone)) : TRUE

\* the result of a store function: the tables, or the error of the first
\* INSERT that failed
Stored(db) == [err |-> nil, db |-> db]
StoreFailed(db, err) == [err |-> err, db |-> db]

hasIntervalStart(db, startUUID) == \E s \in db.interval_start : s.uuid = startUUID

\* storeNewIntervalStop with the created_at of the source row in place of now
RECURSIVE storeNewIntervalStopSourceCreatedAt(_, _, _)
storeNewIntervalStopSourceCreatedAt(db, rows, clk) ==
    IF rows = << >> THEN Stored(db)
    ELSE LET r == Head(rows)
         IN IF \E p \in db.interval_stop : p.uuid = r.uuid \/ p.start_uuid = r.start_uuid
                THEN storeNewIntervalStopSourceCreatedAt(db, Tail(rows), clk)
            ELSE IF ~hasIntervalStart(db, r.start_uuid)
                THEN StoreFailed(db, ErrForeignKey)
            ELSE storeNewIntervalStopSourceCreatedAt(
                    [db EXCEPT !.interval_stop = @ \cup
                        {[uuid |-> r.uuid, start_uuid |-> r.start_uuid,
                          stop_timestamp |-> r.stop_timestamp,
                          created_at |-> r.created_at]}],
                    Tail(rows), clk)

\* INSERT INTO interval_stop ... ON CONFLICT DO NOTHING: uuid is the primary
\* key, start_uuid is UNIQUE and references interval_start(uuid)
RECURSIVE storeNewIntervalStop(_, _, _)
storeNewIntervalStop(db, rows, clk) ==
    IF rows = << >> THEN Stored(db)
    ELSE LET r == Head(rows)
         IN IF \E p \in db.interval_stop : p.uuid = r.uuid \/ p.start_uuid = r.start_uuid
                THEN storeNewIntervalStop(db, Tail(rows), clk)
            ELSE IF ~hasIntervalStart(db, r.start_uuid)
                THEN StoreFailed(db, ErrForeignKey)
            ELSE storeNewIntervalStop(
                    [db EXCEPT !.interval_stop = @ \cup
                        {[uuid |-> r.uuid, start_uuid |-> r.start_uuid,
                          stop_timestamp |-> r.stop_timestamp, created_at |-> clk]}],
                    Tail(rows), clk)

\* INSERT INTO interval_tombstone ... ON CONFLICT DO NOTHING: uuid is the
\* primary key, start_uuid is UNIQUE and references interval_start(uuid)
RECURSIVE storeNewIntervalTombstone(_, _, _)
storeNewIntervalTombstone(db, rows, clk) ==
    IF rows = << >> THEN Stored(db)
    ELSE LET r == Head(rows)
         IN IF \E x \in db.interval_tombstone :
                    x.uuid = r.uuid \/ x.start_uuid = r.start_uuid
                THEN storeNewIntervalTombstone(db, Tail(rows), clk)
            ELSE IF ~hasIntervalStart(db, r.start_uuid)
                THEN StoreFailed(db, ErrForeignKey)
            ELSE storeNewIntervalTombstone(
                    [db EXCEPT !.interval_tombstone = @ \cup
                        {[uuid |-> r.uuid, start_uuid |-> r.start_uuid,
                          created_at |-> clk]}],
                    Tail(rows), clk)

\* a plain INSERT INTO interval_tags: a row whose uuid is already stored makes
\* the statement fail
storeNewIntervalTagsPlainInsert(db, rows, clk) ==
    IF \E i \in 1..Len(rows) : \E g \in db.interval_tags : g.uuid = rows[i].uuid
        THEN StoreFailed(db, ErrDriver)
    ELSE Stored([db EXCEPT !.interval_tags = @ \cup
            {[uuid |-> rows[i].uuid, interval_start_uuid |-> rows[i].interval_start_uuid,
              tag |-> rows[i].tag, created_at |-> clk] : i \in 1..Len(rows)}])

\* INSERT INTO interval_tags ... ON CONFLICT DO NOTHING: uuid is the only key;
\* interval_start_uuid and tag are foreign keys
RECURSIVE storeNewIntervalTags(_, _, _)
storeNewIntervalTags(db, rows, clk) ==
    IF rows = << >> THEN Stored(db)
    ELSE LET r == Head(rows)
         IN IF \E g \in db.interval_tags : g.uuid = r.uuid
                THEN storeNewIntervalTags(db, Tail(rows), clk)
            ELSE IF \/ ~hasIntervalStart(db, r.interval_start_uuid)
                    \/ ~\E g \in db.tags : g.name = r.tag
                THEN StoreFailed(db, ErrForeignKey)
            ELSE storeNewIntervalTags(
                    [db EXCEPT !.interval_tags = @ \cup
                        {[uuid |-> r.uuid, interval_start_uuid |-> r.interval_start_uuid,
                          tag |-> r.tag, created_at |-> clk]}],
                    Tail(rows), clk)

\* INSERT INTO interval_tags_tombstone ... ON CONFLICT DO NOTHING: uuid is the
\* only key; interval_tag_uuid references interval_tags(uuid)
RECURSIVE storeNewIntervalTagsTombstone(_, _, _)
storeNewIntervalTagsTombstone(db, rows, clk) ==
    IF rows = << >> THEN Stored(db)
    ELSE LET r == Head(rows)
         IN IF \E x \in db.interval_tags_tombstone : x.uuid = r.uuid
                THEN storeNewIntervalTagsTombstone(db, Tail(rows), clk)
            ELSE IF ~\E g \in db.interval_tags : g.uuid = r.interval_tag_uuid
                THEN StoreFailed(db, ErrForeignKey)
            ELSE storeNewIntervalTagsTombstone(
                    [db EXCEPT !.interval_tags_tombstone = @ \cup
                        {[uuid |-> r.uuid, interval_tag_uuid |-> r.interval_tag_uuid,
                          created_at |-> clk]}],
                    Tail(rows), clk)

\* ---- Sync: one round ---------------------------------------------------------
\* A round in progress: the tables seen by the local transaction tx and by the
\* relay transaction syncTx, and the first error met.
Round(local, relay) == [err |-> nil, local |-> local, relay |-> relay]

\* One block of Sync for a table with foreign keys: the new rows of both
\* sides are read first, then the remote ones are stored locally and the local
\* ones remotely.  toLocal and toRelay are the results of the two store calls.
exchange(st, toLocal, toRelay) ==
    IF toLocal.err # nil THEN [st EXCEPT !.err = toLocal.err]
    ELSE IF toRelay.err # nil THEN [st EXCEPT !.err = toRelay.err]
    ELSE [err |-> nil, local |-> toLocal.db, relay |-> toRelay.db]

syncTags(st, clk) ==
    IF st.err # nil THEN st
    ELSE LET newLocalTags == getNewTags(st.local)
             newRemoteTags == getNewTags(st.relay)
         IN exchange(st, Stored(storeNewTags(st.local, newRemoteTags, clk)),
                         Stored(storeNewTags(st.relay, newLocalTags, clk)))

\* syncIntervalStart with newRemoteIntervalStart passed to both store calls
syncIntervalStartRemoteTwice(st, newRemoteIntervalStart, clk) ==
    IF st.err # nil THEN st
    ELSE exchange(st,
            Stored(storeNewIntervalStart(st.local, newRemoteIntervalStart, clk)),
            Stored(storeNewIntervalStart(st.relay, newRemoteIntervalStart, clk)))

\* newRemoteIntervalStart is the sequence the relay returned
syncIntervalStart(st, newRemoteIntervalStart, clk) ==
    IF st.err # nil THEN st
    ELSE LET newLocalIntervalStart == CHOOSE q \in getNewIntervalStart(st.local) : TRUE
         IN exchange(st,
                Stored(storeNewIntervalStart(st.local, newRemoteIntervalStart, clk)),
                Stored(storeNewIntervalStart(st.relay, newLocalIntervalStart, clk)))

\* syncIntervalStop with newRemoteIntervalStop passed to both store calls
syncIntervalStopRemoteTwice(st, clk) ==
    IF st.err # nil THEN st
    ELSE LET newRemoteIntervalStop == getNewIntervalStop(st.relay)
         IN exchange(st, storeNewIntervalStop(st.local, newRemoteIntervalStop, clk),
                         storeNewIntervalStop(st.relay, newRemoteIntervalStop, clk))

syncIntervalStop(st, clk) ==
    IF st.err # nil THEN st
    ELSE LET newLocalIntervalStop == getNewIntervalStop(st.local)
             newRemoteIntervalStop == getNewIntervalStop(st.relay)
         IN exchange(st, storeNewIntervalStop(st.local, newRemoteIntervalStop, clk),
                         storeNewIntervalStop(st.relay, newLocalIntervalStop, clk))

syncIntervalTombstone(st, clk) ==
    IF st.err # nil THEN st
    ELSE LET newLocalIntervalTombstone == getNewIntervalTombstone(st.local)
             newRemoteIntervalTombstone == getNewIntervalTombstone(st.relay)
         IN exchange(st,
                storeNewIntervalTombstone(st.local, newRemoteIntervalTombstone, clk),
                storeNewIntervalTombstone(st.relay, newLocalIntervalTombstone, clk))

syncIntervalTags(st, clk) ==
    IF st.err # nil THEN st
    ELSE LET newLocalIntervalTags == getNewIntervalTags(st.local)
             newRemoteIntervalTags == getNewIntervalTags(st.relay)
         IN exchange(st, storeNewIntervalTags(st.local, newRemoteIntervalTags, clk),
                         storeNewIntervalTags(st.relay, newLocalIntervalTags, clk))

syncIntervalTagsTombstone(st, clk) ==
    IF st.err # nil THEN st
    ELSE LET newLocalIntervalTagsTombstone == getNewIntervalTagsTombstone(st.local)
             newRemoteIntervalTagsTombstone == getNewIntervalTagsTombstone(st.relay)
         IN exchange(st,
                storeNewIntervalTagsTombstone(st.local, newRemoteIntervalTagsTombstone, clk),
                storeNewIntervalTagsTombstone(st.relay, newLocalIntervalTagsTombstone, clk))

\* completeRound in which the local transaction commits whatever the error
completeRoundLocalCommits(local, relay, st) ==
    [err |-> st.err, local |-> st.local,
     relay |-> IF st.err # nil THEN relay
               ELSE [st.relay EXCEPT !.sync_history = relay.sync_history]]

\* What the round leaves in the two stores when both transactions complete:
\* with an error both roll back; without one both commit, and the temporary
\* sync_history of the relay connection goes with the connection.
completeRound(local, relay, st) ==
    IF st.err # nil THEN [err |-> st.err, local |-> local, relay |-> relay]
    ELSE [err |-> nil, local |-> st.local,
          relay |-> [st.relay EXCEPT !.sync_history = relay.sync_history]]

\* The statements of a round that may fail in the driver: in block k (1 the
\* tags, 6 the interval tags tombstones) the reading of the new rows ("get"),
\* the storing of the remote rows locally ("storeLocal") or the storing of the
\* local rows remotely ("storeRemote").  << >> is a round without such failure.
Faults ==
    {<<k, w>> : k \in 1..Len(<<"tags", "interval_start", "interval_stop",
                                "interval_tombstone", "interval_tags",
                                "interval_tags_tombstone">>),
                w \in {"get", "storeLocal", "storeRemote"}}

\* block k of the round: done is what the block leaves when the driver runs
\* every statement; with fault in this block the round stops with the error,
\* after the local store call when the remote one fails
block(k, st, done, fault) ==
    IF st.err # nil THEN st
    ELSE IF fault = <<k, "get">> \/ fault = <<k, "storeLocal">>
        THEN [st EXCEPT !.err = ErrDriver]
    ELSE IF fault = <<k, "storeRemote">> /\ done.err = nil
        THEN [err |-> ErrDriver, local |-> done.local, relay |-> st.relay]
    ELSE done

\* The round of Sync in which the relay returned its new interval_start rows
\* as newRemoteIntervalStart.  clk is the value of now := time.Now().
syncRound(local, relay, newRemoteIntervalStart, clk, fault) ==
    LET lastSync == getLastSyncTimestamp(local)
        st0 == Round(local, setupLastSyncTimestamp(relay, lastSync))
        st1 == block(1, st0, syncTags(st0, clk), fault)
        st2 == block(2, st1, syncIntervalStart(st1, newRemoteIntervalStart, clk), fault)
        st3 == block(3, st2, syncIntervalStop(st2, clk), fault)
        st4 == block(4, st3, syncIntervalTombstone(st3, clk), fault)
        st5 == block(5, st4, syncIntervalTags(st4, clk), fault)
        st6 == block(6, st5, syncIntervalTagsTombstone(st5, clk), fault)
    IN [round |-> st6, returned |-> completeRound(local, relay, st6)]

\* every result Sync may return when the driver runs every statement
Sync(local, relay, clk) ==
    LET remote == setupLastSyncTimestamp(relay, getLastSyncTimestamp(local))
    IN {syncRound(local, relay, q, clk, << >>).returned : q \in getNewIntervalStart(remote)}

\* every round of Sync in which a statement fails: round is what the two
\* transactions had done when it failed, returned what Sync leaves
SyncFailing(local, relay, clk) ==
    LET remote == setupLastSyncTimestamp(relay, getLastSyncTimestamp(local))
    IN {syncRound(local, relay, q, clk, f) :
            q \in getNewIntervalStart(remote), f \in Faults}

\* ---- Sync: the two commits -------------------------------------------------------
\* The order in which the two deferred completeTransaction calls of Sync run:
\* the one deferred last, for the relay transaction, runs first.
CommitOrder == <<Relay, "local">>

\* What Sync leaves when the Commit of the transaction failing fails (or the
\* process stops there); failing is << >> when both Commit calls succeed.
\* committed lists the transactions that committed, in order.  A Commit that
\* fails sets the error of Sync, so every later completeTransaction rolls back.
finalise(local, relay, st, failing) ==
    LET done == IF st.err # nil \/ failing = <<CommitOrder[1]>> THEN << >>
                ELSE IF failing = <<CommitOrder[2]>> THEN <<CommitOrder[1]>>
                ELSE CommitOrder
        has(x) == \E i \in 1..Len(done) : done[i] = x
    IN [err |-> IF st.err # nil THEN st.err ELSE IF failing # << >> THEN ErrDriver ELSE nil,
        local |-> IF has("local") THEN st.local ELSE local,
        relay |-> IF has(Relay) THEN [st.relay EXCEPT !.sync_history = relay.sync_history]
                  ELSE relay,
        committed |-> done]

\* every outcome of a Sync whose statements all succeed, whatever its Commit
\* calls do
SyncCommitting(local, relay, clk) ==
    LET remote == setupLastSyncTimestamp(relay, getLastSyncTimestamp(local))
    IN {finalise(local, relay, syncRound(local, relay, q, clk, << >>).round, f) :
            q \in getNewIntervalStart(remote), f \in Opt({"local", Relay})}

\* ---- the system: two replicas, one relay ---------------------------------------
Init ==
    /\ store = [s \in Stores |-> IF s = Relay THEN EmptyDB("postgres") ELSE EmptyDB("sqlite")]
    /\ now = 1
    /\ nextUUID = [r \in Replicas |-> 1]
    /\ phase = "local"
    /\ quick = [started |-> [r \in Replicas |-> FALSE], synced |-> TRUE, failed |-> FALSE]

\* phase after a local operation: a local operation that follows a sync round
\* leaves the pattern "local operations, sync r1, sync r2, sync r1"
afterLocal(p) == IF p = "local" THEN "local" ELSE "other"

\* phase after a sync round of replica r
afterSync(p, r) ==
    IF p = "local" /\ r = "r1" THEN "synced r1"
    ELSE IF p = "synced r1" /\ r = "r2" THEN "synced r1 r2"
    ELSE IF p = "synced r1 r2" /\ r = "r1" THEN "synced r1 r2 r1"
    ELSE "other"

\* the number of uuid() calls so far, on all replicas
uuidCalls == (nextUUID["r1"] - 1) + (nextUUID["r2"] - 1)

\* the value the next uuid() call on replica r returns
fresh(r) == <<r, nextUUID[r]>>

\* a call on replica r returned res: the tables of r are those res leaves.
\* cap bounds the uuid() calls of the behaviour.
Returned(r, res, cap) ==
    /\ uuidCalls + res.used <= cap
    /\ store' = [store EXCEPT ![r] = res.db]
    /\ nextUUID' = [nextUUID EXCEPT ![r] = @ + res.used]
    /\ phase' = afterLocal(phase)
    /\ UNCHANGED <<now, quick>>

CallStart(r, cap) ==
    \E t \in Times, tags \in TagLists :
        Returned(r, Start(store[r], t, tags, now, fresh(r)), cap)

CallStopAt(r, cap) ==
    \E t \in Opt(Times) :
        Returned(r, StopAt(store[r], t, now, fresh(r)), cap)

CallStopFor(r, cap) ==
    \E d \in Durations :
        Returned(r, StopFor(store[r], d, now, fresh(r)), cap)

\* the ids a caller may name: those given so far and one never given
IDs(db) == 1..NextID(db)

CallContinue(r, cap) ==
    \E t \in Times, id \in Opt(IDs(store[r])) :
        \E res \in Continue(store[r], t, id, now, fresh(r)) :
            Returned(r, res, cap)

CallTag(r, cap) ==
    \E id \in IDs(store[r]), tags \in TagLists :
        Returned(r, Tag(store[r], id, tags, now, fresh(r)), cap)

CallUntag(r, cap) ==
    \E id \in IDs(store[r]), tags \in TagLists :
        Returned(r, Untag(store[r], id, tags, now, fresh(r)), cap)

CallDelete(r, cap) ==
    \E id \in IDs(store[r]) :
        Returned(r, Delete(store[r], id, now, fresh(r)), cap)

CallSync(r) ==
    \E res \in Sync(store[r], store[Relay], now) :
        /\ store' = [store EXCEPT ![r] = res.local, ![Relay] = res.relay]
        /\ phase' = IF res.err = nil THEN afterSync(phase, r) ELSE phase
        /\ UNCHANGED <<now, nextUUID, quick>>

\* a Sync of replica r in which a statement failed
CallSyncFailing(r) ==
    \E x \in SyncFailing(store[r], store[Relay], now) :
        /\ store' = [store EXCEPT ![r] = x.returned.local, ![Relay] = x.returned.relay]
        /\ UNCHANGED <<now, nextUUID, phase, quick>>

Tick ==
    /\ now < MaxClock
    /\ now' = now + 1
    /\ UNCHANGED <<store, nextUUID, phase, quick>>

Local(r, cap) ==
    \/ CallStart(r, cap)
    \/ CallStopAt(r, cap)
    \/ CallStopFor(r, cap)
    \/ CallContinue(r, cap)
    \/ CallTag(r, cap)
    \/ CallUntag(r, cap)
    \/ CallDelete(r, cap)

Next ==
    \/ \E r \in Replicas : Local(r, MaxUUID)
    \/ \E r \in Replicas : CallSync(r)
    \/ \E r \in Replicas : CallSyncFailing(r)
    \/ Tick

Spec == Init /\ [][Next]_vars

\* one replica that never syncs
NextLocal ==
    \/ Local("r1", MaxUUIDLocal)
    \/ Tick

SpecLocal == Init /\ [][NextLocal]_vars

\* the behaviours of the system that take place within one second of the clock
NextSameSecond ==
    \/ \E r \in Replicas : Local(r, MaxUUIDSameSecond)
    \/ \E r \in Replicas : CallSync(r)
    \/ \E r \in Replicas : CallSyncFailing(r)

SpecSameSecond == Init /\ [][NextSameSecond]_vars

\* INSERT INTO sync_history (sync_timestamp) VALUES (?): the tests of the
\* selection queries write the watermark of the replica themselves
InsertSyncHistory(r) ==
    \E ts \in 1..(MaxClock + 1) :
        /\ ts \notin store[r].sync_history
        /\ store' = [store EXCEPT ![r].sync_history = @ \cup {ts}]
        /\ UNCHANGED <<now, nextUUID, phase, quick>>

\* one replica with a watermark, local operations and sync rounds
NextSelect ==
    \/ Local("r1", MaxUUIDSelect)
    \/ InsertSyncHistory("r1")
    \/ CallSync("r1")
    \/ Tick

SpecSelect == Init /\ [][NextSelect]_vars

\* a Sync of replica r in which a Commit fails
CallSyncCommitFault(r) ==
    \E x \in SyncCommitting(store[r], store[Relay], now) :
        /\ x.err # nil
        /\ store' = [store EXCEPT ![r] = x.local, ![Relay] = x.relay]
        /\ UNCHANGED <<now, nextUUID, phase, quick>>

\* two replicas and a relay within one second, the Commit calls of a round
\* failing at times
NextCommitFault ==
    \/ \E r \in Replicas : Local(r, MaxUUID)
    \/ \E r \in Replicas : CallSync(r)
    \/ \E r \in Replicas : CallSyncCommitFault(r)

SpecCommitFault == Init /\ [][NextCommitFault]_vars

\* ---- the start command -------------------------------------------------------
\* StartCmd.Run without the Stop of the current interval
StartCmdRunStartOnly(db, startTime, tags, clk, u) == Start(db, startTime, tags, clk, u)

\* StartCmd.Run: Stop(startTime), whose sql.ErrNoRows is ignored, then
\* Start(startTime, cmd.Tags), each in its own transaction; Stop(t) of the
\* command is StopAt(t) of the TimeTracker
StartCmdRun(db, startTime, tags, clk, u) ==
    LET stopped == StopAt(db, <<startTime>>, clk, u)
    IN IF stopped.err # nil /\ stopped.err # ErrNoRows THEN stopped
       ELSE LET started == Start(stopped.db, startTime, tags, clk, after(u, stopped.used))
            IN [started EXCEPT !.used = stopped.used + @]

CallStartCmd(r, cap) ==
    \E t \in Times, tags \in TagLists :
        Returned(r, StartCmdRun(store[r], t, tags, now, fresh(r)), cap)

\* one replica driven by the command line and by calls of the TimeTracker
NextCli ==
    \/ CallStartCmd("r1", MaxUUIDLocal)
    \/ Local("r1", MaxUUIDLocal)
    \/ Tick

SpecCli == Init /\ [][NextCli]_vars

\* ---- the sanity auditor ------------------------------------------------------------
\* checkNoOverlap returns nil on the rows q: every interval starts before it
\* stops and none starts before the stop of the previous one
noOverlapIn(q) ==
    \A i \in 1..Len(q) :
        /\ q[i].start_timestamp < q[i].stop_timestamp
        /\ i > 1 => q[i].start_timestamp >= q[i - 1].stop_timestamp

\* checkNoOverlap returns nil whatever the order of the rows with equal start
checkNoOverlap(db) ==
    \A q \in {x \in Enumerations(ClosedIntervals(db)) :
                \A i, j \in 1..Len(x) :
                    i < j => x[i].start_timestamp <= x[j].start_timestamp} :
        noOverlapIn(q)

\* intervalTagsUnicity returns nil: no (interval_start_uuid, tag) group of
\* interval_tags rows without tombstone has more than one row
intervalTagsUnicity(db) ==
    \A g \in db.interval_tags :
        Cardinality({h \in db.interval_tags :
            /\ h.interval_start_uuid = g.interval_start_uuid
            /\ h.tag = g.tag
            /\ ~\E x \in db.interval_tags_tombstone : x.interval_tag_uuid = h.uuid
            /\ ~\E x \in db.interval_tags_tombstone : x.interval_tag_uuid = g.uuid}) <= 1

\* checkIntervalsUpdatedAt returns nil: its query joins ON
\* interval_start.start_timestamp = interval_stop.uuid, an integer and a uuid
\* text that are never equal, so it returns no row
checkIntervalsUpdatedAt(db) ==
    {<<s, p>> \in db.interval_start \X db.interval_stop : FALSE} = {}

\* Sanity.Check returns nil
Check(db) == checkNoOverlap(db) /\ intervalTagsUnicity(db) /\ checkIntervalsUpdatedAt(db)

\* ---- TestSyncQuick ------------------------------------------------------------------
\* The state testFunc works on: the stores, the uuid counters and the test's
\* variables.  A require.NoError that fails stops the test: failed.
QuickState ==
    [store |-> store, nextUUID |-> nextUUID, started |-> quick.started,
     failed |-> quick.failed]

\* if ttStarted { ttStarted = false; require.NoError(tt.StopAt(now)) }
quickStop(q, r, t) ==
    IF q.failed \/ ~q.started[r] THEN q
    ELSE LET res == StopAt(q.store[r], <<t>>, t, <<r, q.nextUUID[r]>>)
         IN [store |-> [q.store EXCEPT ![r] = res.db],
             nextUUID |-> [q.nextUUID EXCEPT ![r] = @ + res.used],
             started |-> [q.started EXCEPT ![r] = FALSE],
             failed |-> res.err # nil]

\* ttStarted = true; require.NoError(tt.Start(now, []string{}))
quickStart(q, r, t) ==
    IF q.failed THEN q
    ELSE LET res == Start(q.store[r], t, << >>, t, <<r, q.nextUUID[r]>>)
         IN [store |-> [q.store EXCEPT ![r] = res.db],
             nextUUID |-> [q.nextUUID EXCEPT ![r] = @ + res.used],
             started |-> [q.started EXCEPT ![r] = TRUE],
             failed |-> res.err # nil]

\* require.NoError(tt.Sync(syncCfg)): every state it may leave.  Sync reads
\* time.Now(), the wall clock, which the test does not set: clk is its value.
quickSync(q, r, clk) ==
    IF q.failed THEN {q}
    ELSE {[q EXCEPT !.store = [q.store EXCEPT ![r] = res.local, ![Relay] = res.relay],
                    !.failed = res.err # nil] :
            res \in Sync(q.store[r], q.store[Relay], clk)}

\* the end of testFunc: q is the state reached at second t
QuickDone(q, t, isSync) ==
    /\ store' = q.store
    /\ nextUUID' = q.nextUUID
    /\ now' = t
    /\ quick' = [started |-> q.started, synced |-> isSync, failed |-> q.failed]
    /\ UNCHANGED phase

TimeOffsets == 1..MaxTimeOffset

\* case "start"
QuickStart ==
    \E dbIndex \in Replicas, timeOffset \in TimeOffsets :
        /\ ~quick.failed
        /\ now + timeOffset <= MaxQuickClock
        /\ LET t == now + timeOffset
               q1 == quickStop(QuickState, "r1", t)
               q2 == quickStop(q1, "r2", t)
           IN QuickDone(quickStart(q2, dbIndex, t), t, FALSE)

\* case "stop"
QuickStop ==
    \E dbIndex \in Replicas, timeOffset \in TimeOffsets :
        /\ ~quick.failed
        /\ now + timeOffset <= MaxQuickClock
        /\ LET t == now + timeOffset
           IN QuickDone(quickStop(QuickState, dbIndex, t), t, FALSE)

\* case "sync": the test's now advances by a second after the first and after
\* the second Sync; the wall clock reads any second of Clock during the round
QuickSync ==
    \E timeOffset \in TimeOffsets :
        /\ ~quick.failed
        /\ now + timeOffset + 2 <= MaxQuickClock
        /\ LET t == now + timeOffset
               q1 == quickStop(QuickState, "r1", t)
               q2 == quickStop(q1, "r2", t)
           IN \E wall \in Clock :
                \E q3 \in quickSync(q2, "r1", wall) :
                    \E q4 \in quickSync(q3, "r2", wall) :
                        \E q5 \in quickSync(q4, "r1", wall) :
                            QuickDone(q5, t + 2, TRUE)

NextQuick == QuickStart \/ QuickStop \/ QuickSync

SpecQuick == Init /\ [][NextQuick]_vars

\* ---- properties ------------------------------------------------------------------
\* I3 on one store: closed Live intervals do not overlap
NoOverlap(db) ==
    \A a, b \in ClosedIntervals(db) :
        (a # b /\ a.start_timestamp <= b.start_timestamp)
            => a.stop_timestamp <= b.start_timestamp

\* I1 on one store
AtMostOneOpen(db) == Cardinality(OpenIntervals(db)) <= 1

\* I4 on one store
TagUnicity(db) ==
    \A s \in LiveStarts(db), name \in TagNames :
        Cardinality({g \in EffectiveTags(db, s.uuid) : g.tag = name}) <= 1

\* I2 on one store
StartBeforeStop(db) ==
    \A c \in ClosedIntervals(db) : c.start_timestamp < c.stop_timestamp

\* C1: on a replica that only ran local operations, no two Live closed
\* intervals overlap: for a, b with a.start <= b.start, a.stop <= b.start.
C1_NoOverlapLocal == NoOverlap(store["r1"])

\* two Live closed intervals exist, the second one recorded before the first
C1_Witness ==
    \E a, b \in ClosedIntervals(store["r1"]) :
        /\ a.stop_timestamp <= b.start_timestamp
        /\ b.uuid[2] < a.uuid[2]

\* C2: on a replica that only ran local operations, at most one Open interval
\* exists.
C2_AtMostOneOpenLocal == AtMostOneOpen(store["r1"])

\* an Open interval exists next to a closed one and a deleted one
C2_Witness ==
    /\ Cardinality(OpenIntervals(store["r1"])) = 1
    /\ ClosedIntervals(store["r1"]) # {}
    /\ store["r1"].interval_tombstone # {}

\* C3: on a replica that only ran local operations, every Live interval has at
\* most one Effective IntervalTag per tag name, whatever tag lists were given.
C3_TagUnicityLocal == TagUnicity(store["r1"])

\* C4: on a replica that only ran local operations, every Live closed interval
\* has start_timestamp < stop_timestamp; with one Open interval, a StopAt at or
\* before its start and a StopFor of a zero or negative duration return an
\* error and leave the tables as they were.
C4_StartBeforeStopLocal ==
    /\ StartBeforeStop(store["r1"])
    /\ \A o \in OpenIntervals(store["r1"]) :
        /\ \A t \in Times :
            t <= o.start_timestamp =>
                LET res == StopAt(store["r1"], <<t>>, now, fresh("r1"))
                IN res.err # nil /\ res.db = store["r1"]
        /\ \A d \in Durations :
            d <= 0 =>
                LET res == StopFor(store["r1"], d, now, fresh("r1"))
                IN res.err # nil /\ res.db = store["r1"]

\* a closed interval exists and an Open interval whose start the StopAt of the
\* same second is refused with ErrInvalidStopTimestamp
C4_Witness ==
    /\ ClosedIntervals(store["r1"]) # {}
    /\ \E o \in OpenIntervals(store["r1"]) :
        StopAt(store["r1"], <<o.start_timestamp>>, now, fresh("r1")).err
            = ErrInvalidStopTimestamp

\* the rows of List over the whole time range without id and uuid, each with
\* the number of intervals that show it
ListedIntervals(db) ==
    LET rows == List(db, 0, MaxTime + MaxDuration + 1)
        shown(x) == [start_timestamp |-> x.start_timestamp,
                     stop_timestamp |-> x.stop_timestamp, tags |-> x.tags]
        P == {shown(x) : x \in rows}
    IN [p \in P |-> Cardinality({x \in rows : shown(x) = p})]

\* C5: after local operations on both replicas followed by a successful sync of
\* r1, of r2 and of r1 again, List over the whole time range shows the same
\* intervals (start, stop, Effective tags; id and uuid left out) on r1 and r2.
C5_SameListAfterThreeSyncs ==
    phase = "synced r1 r2 r1" =>
        ListedIntervals(store["r1"]) = ListedIntervals(store["r2"])

\* after the three rounds both replicas list a closed interval recorded on r1
\* and an interval recorded on r2
C5_Witness ==
    /\ phase = "synced r1 r2 r1"
    /\ \E x, y \in List(store["r2"], 0, MaxTime + MaxDuration + 1) :
        /\ x.uuid[1] = "r1" /\ x.stop_timestamp # << >>
        /\ y.uuid[1] = "r2"
    /\ \E x \in List(store["r1"], 0, MaxTime + MaxDuration + 1) : x.uuid[1] = "r2"

\* C6: Sync on a replica with an Open interval returns ErrExistingOpenInterval
\* and adds no row to the local store or to the relay.
C6_SyncRefusesOpenInterval ==
    \A r \in Replicas :
        OpenIntervals(store[r]) # {} =>
            \A res \in Sync(store[r], store[Relay], now) :
                /\ res.err = ErrExistingOpenInterval
                /\ res.local = store[r]
                /\ res.relay = store[Relay]

\* C7: after any interleaving of local operations and sync rounds, each replica
\* has at most one Open interval.
C7_AtMostOneOpenAfterSync == \A r \in Replicas : AtMostOneOpen(store[r])

\* C8: after any interleaving of local operations and sync rounds, no two Live
\* closed intervals of a replica overlap.
C8_NoOverlapAfterSync == \A r \in Replicas : NoOverlap(store[r])

\* C9: a sync round started while no store holds an Open interval and every
\* (interval, tag name) pair of every store has at most one Effective
\* IntervalTag leaves the replica with at most one Effective IntervalTag per
\* pair.
C9_TagUnicityAfterSync ==
    (\A s \in Stores : TagUnicity(store[s]) /\ OpenIntervals(store[s]) = {}) =>
        \A r \in Replicas :
            \A res \in Sync(store[r], store[Relay], now) :
                res.err = nil => TagUnicity(res.local)

\* C10: a sync round that returns no error leaves the round's now as the
\* greatest sync_timestamp of the local sync_history.
C10_SyncAppendsWatermark ==
    [][\A r \in Replicas :
         CallSync(r) => getLastSyncTimestamp(store'[r]) = <<now>>]_vars

\* C11: a sync round in which a statement fails, in any of the six blocks and on
\* either store, returns an error and leaves the local store (its sync_history
\* included) and the relay as they were before the round.
C11_FailedRoundRollsBack ==
    \A r \in Replicas :
        \A x \in SyncFailing(store[r], store[Relay], now) :
            /\ x.returned.err # nil
            /\ x.returned.local = store[r]
            /\ x.returned.relay = store[Relay]

\* a round fails after its two transactions had stored rows of earlier tables
\* on both sides
C11_Witness ==
    \E r \in Replicas :
        \E x \in SyncFailing(store[r], store[Relay], now) :
            /\ x.round.local.interval_start # store[r].interval_start
            /\ x.round.relay.interval_stop # store[Relay].interval_stop

\* the six event tables of a store
EventRows(db) ==
    [tags |-> db.tags, interval_start |-> db.interval_start,
     interval_stop |-> db.interval_stop, interval_tombstone |-> db.interval_tombstone,
     interval_tags |-> db.interval_tags,
     interval_tags_tombstone |-> db.interval_tags_tombstone]

\* C12: when a sync round of a replica is followed at once (at the same or a
\* later second) by a second round of the same replica, the second round leaves
\* the event rows of the relay and of the replica as the first round left them.
C12_SecondSyncChangesNothing ==
    \A r \in Replicas :
        \A first \in Sync(store[r], store[Relay], now) :
            first.err = nil =>
                \A clk \in {c \in Clock : c >= now} :
                    \A second \in Sync(first.local, first.relay, clk) :
                        /\ EventRows(second.relay) = EventRows(first.relay)
                        /\ EventRows(second.local) = EventRows(first.local)

\* the first round stores interval starts on both sides and the second round
\* can run a second later
C12_Witness ==
    /\ now < MaxClock
    /\ \E r \in Replicas :
        \E first \in Sync(store[r], store[Relay], now) :
            /\ first.err = nil
            /\ first.local.interval_start # store[r].interval_start
            /\ first.relay.interval_start # store[Relay].interval_start

\* the names of the six event tables
EventTables ==
    {"tags", "interval_start", "interval_stop", "interval_tombstone",
     "interval_tags", "interval_tags_tombstone"}

\* the fields of row x of table T a round carries over: all but created_at and
\* the per-replica id
Payload(T, x) ==
    CASE T = "tags" -> <<x.name>>
      [] T = "interval_start" -> <<x.uuid, x.start_timestamp>>
      [] T = "interval_stop" -> <<x.uuid, x.start_uuid, x.stop_timestamp>>
      [] T = "interval_tombstone" -> <<x.uuid, x.start_uuid>>
      [] T = "interval_tags" -> <<x.uuid, x.interval_start_uuid, x.tag>>
      [] T = "interval_tags_tombstone" -> <<x.uuid, x.interval_tag_uuid>>

\* rows x and y of table T have the same primary key
SamePrimaryKey(T, x, y) == IF T = "tags" THEN x.name = y.name ELSE x.uuid = y.uuid

\* rows x and y of table T have the same primary key or the same UNIQUE
\* start_uuid
SameUniqueKey(T, x, y) ==
    \/ SamePrimaryKey(T, x, y)
    \/ T \in {"interval_stop", "interval_tombstone"} /\ x.start_uuid = y.start_uuid

\* the key of row x is taken by row y: unique selects the keys that count
Taken(unique, T, x, y) ==
    IF unique THEN SameUniqueKey(T, x, y) ELSE SamePrimaryKey(T, x, y)

\* the rows src of table T reached the destination, whose table was destBefore
\* and is destAfter: a row with a key taken in destBefore is not stored and the
\* rows of destBefore are still there; any other row is in destAfter with its
\* payload and created_at = clk
Delivered(T, src, destBefore, destAfter, clk, unique) ==
    /\ destBefore \subseteq destAfter
    /\ \A x \in src :
        (~\E y \in destBefore : Taken(unique, T, x, y)) =>
            \E y \in destAfter : Payload(T, y) = Payload(T, x) /\ y.created_at = clk

\* both directions of a round res of Sync(local, relay, clk), for every table
RoundDelivers(local, relay, clk, res, unique) ==
    LET remote == setupLastSyncTimestamp(relay, getLastSyncTimestamp(local))
    IN \A T \in EventTables :
        /\ Delivered(T, newSince(local, local[T]), relay[T], res.relay[T], clk, unique)
        /\ Delivered(T, newSince(remote, remote[T]), local[T], res.local[T], clk, unique)

ListedWithUUID(db, since, until) ==
    {[uuid |-> x.uuid, start_timestamp |-> x.start_timestamp,
      stop_timestamp |-> x.stop_timestamp, tags |-> x.tags] :
        x \in List(db, since, until)}

\* C14: in TestSyncQuick, after every iteration Sanity.Check returns nil on
\* both replicas, and after an iteration that ran the round Sync r1, Sync r2,
\* Sync r1 both replicas list the same intervals with the same tags, ids left
\* out.
C14_QuickSanityAndEqualLists ==
    /\ \A r \in Replicas : Check(store[r])
    /\ quick.synced =>
        ListedWithUUID(store["r1"], 1, now + 1) = ListedWithUUID(store["r2"], 1, now + 1)

\* after a round both replicas list two intervals, one started on each of
\* them, the second starting when the first stops
C14_Witness ==
    /\ quick.synced /\ ~quick.failed
    /\ \E x, y \in ListedWithUUID(store["r2"], 1, now + 1) :
        /\ x.uuid[1] = "r1" /\ y.uuid[1] = "r2"
        /\ x.stop_timestamp = <<y.start_timestamp>>

\* the foreign keys of a store hold: every interval_stop, interval_tombstone
\* and interval_tags row references an interval_start of the store, every
\* interval_tags_tombstone row an interval_tags row of the store
ReferencesHold(db) ==
    /\ \A p \in db.interval_stop : hasIntervalStart(db, p.start_uuid)
    /\ \A x \in db.interval_tombstone : hasIntervalStart(db, x.start_uuid)
    /\ \A g \in db.interval_tags : hasIntervalStart(db, g.interval_start_uuid)
    /\ \A x \in db.interval_tags_tombstone :
        \E g \in db.interval_tags : g.uuid = x.interval_tag_uuid

\* C15: in every committed state of the replicas and of the relay every
\* IntervalStop, IntervalTombstone and IntervalTag references an IntervalStart
\* of the same store and every IntervalTagTombstone an IntervalTag of it.
C15_ReferenceIntegrity == \A s \in Stores : ReferencesHold(store[s])

\* the relay and a replica hold a tag tombstone recorded on the other replica
C15_Witness ==
    \E r \in Replicas :
        \E x \in store[r].interval_tags_tombstone :
            /\ x.uuid[1] # r
            /\ x \in {[y EXCEPT !.created_at = x.created_at] :
                        y \in store[Relay].interval_tags_tombstone}

\* C16: no operation and no sync round removes or changes a row of the six
\* event tables of any store: every row a table holds before a step is in it,
\* with the same fields, after the step.
C16_AppendOnly ==
    [][\A s \in Stores : \A T \in EventTables : store[s][T] \subseteq store'[s][T]]_vars

\* a replica holds the tombstone of an interval deleted on the other replica,
\* stored there by a sync round
C16_Witness ==
    \E r \in Replicas :
        \E x \in store[r].interval_tombstone : x.uuid[1] # r

\* every result a call of an operation on the tables db may return at second
\* clk, u being the next uuid
Results(db, clk, u) ==
    {Start(db, t, tags, clk, u) : t \in Times, tags \in TagLists}
    \cup {StopAt(db, t, clk, u) : t \in Opt(Times)}
    \cup {StopFor(db, d, clk, u) : d \in Durations}
    \cup {stop(db, <<t>>, d, clk, u) : t \in Times, d \in Durations}
    \cup UNION {Continue(db, t, id, clk, u) : t \in Times, id \in Opt(IDs(db))}
    \cup {Tag(db, id, tags, clk, u) : id \in IDs(db), tags \in TagLists}
    \cup {Untag(db, id, tags, clk, u) : id \in IDs(db), tags \in TagLists}
    \cup {Delete(db, id, clk, u) : id \in IDs(db)}

\* C17: a start, stop-at, stop-for, continue, tag, untag or delete that returns
\* an error leaves every table of the local store, tags included, as it was
\* before the call.
C17_ErrorLeavesStoreUnchanged ==
    \A res \in Results(store["r1"], now, fresh("r1")) :
        res.err # nil => res.db = store["r1"]

\* Tag with the list <<"b", "a">> fails on "a", which the interval already
\* has, after it inserted the unknown tag "b" and its interval_tags row
C17_Witness ==
    \E id \in IDs(store["r1"]) :
        /\ Tag(store["r1"], id, <<"b", "a">>, now, fresh("r1")).err = ErrDuplicatedIntervalTag
        /\ ~\E g \in store["r1"].tags : g.name = "b"

\* C18: Start(t, tags) returns ErrExistingOpenInterval when an Open interval
\* exists; else ErrInvalidStartTimestamp exactly when a Live closed interval has
\* start_timestamp <= t < stop_timestamp; else it inserts one interval_start
\* row, with start_timestamp = t, which is the Open interval.
C18_StartPreconditions ==
    LET db == store["r1"]
    IN \A t \in Times, tags \in TagLists :
        LET res == Start(db, t, tags, now, fresh("r1"))
        IN IF OpenIntervals(db) # {} THEN res.err = ErrExistingOpenInterval
           ELSE IF \E c \in ClosedIntervals(db) :
                        c.start_timestamp <= t /\ t < c.stop_timestamp
                THEN res.err = ErrInvalidStartTimestamp
           ELSE /\ res.err = nil
                /\ db.interval_start \subseteq res.db.interval_start
                /\ \E s \in res.db.interval_start :
                    /\ res.db.interval_start \ db.interval_start = {s}
                    /\ s.start_timestamp = t
                    /\ OpenIntervals(res.db) = {s}

\* without Open interval, Start at the stop of a Live closed interval is
\* accepted and Start at its start is refused, in a store where an interval
\* has been deleted
C18_Witness ==
    LET db == store["r1"]
    IN /\ OpenIntervals(db) = {}
       /\ \E c \in ClosedIntervals(db) :
            /\ c.stop_timestamp \in Times
            /\ Start(db, c.stop_timestamp, << >>, now, fresh("r1")).err = nil
            /\ Start(db, c.start_timestamp, << >>, now, fresh("r1")).err
                    = ErrInvalidStartTimestamp
       /\ db.interval_tombstone # {}

\* what C19 expects of a stop at t of the only Open interval o of db, res
\* being what the call returned
StopsAsSpecified(db, o, t, res) ==
    IF \/ t <= o.start_timestamp
       \/ \E s \in LiveStarts(db) :
            o.start_timestamp < s.start_timestamp /\ s.start_timestamp < t
        THEN res.err = ErrInvalidStopTimestamp
    ELSE /\ res.err = nil
         /\ db.interval_stop \subseteq res.db.interval_stop
         /\ \E p \in res.db.interval_stop :
            /\ res.db.interval_stop \ db.interval_stop = {p}
            /\ p.start_uuid = o.uuid
            /\ p.stop_timestamp = t
         /\ OpenIntervals(res.db) = {}

\* C19: with exactly one Open interval o, StopAt(t) and StopFor(d) (t being
\* o.start_timestamp + d, d not zero) return ErrInvalidStopTimestamp exactly
\* when t <= o.start_timestamp or a Live interval starts strictly between
\* o.start_timestamp and t; otherwise they insert one interval_stop row for o
\* with stop_timestamp = t and leave no Open interval.
C19_StopPreconditions ==
    LET db == store["r1"]
    IN \A o \in OpenIntervals(db) :
        OpenIntervals(db) = {o} =>
            /\ \A t \in Times :
                StopsAsSpecified(db, o, t, StopAt(db, <<t>>, now, fresh("r1")))
            /\ \A d \in Durations \ {0} :
                StopsAsSpecified(db, o, o.start_timestamp + d,
                                 StopFor(db, d, now, fresh("r1")))

\* the Open interval starts before a Live closed one: a StopFor that ends
\* after the start of the closed one is refused and a StopAt at that start is
\* accepted
C19_Witness ==
    LET db == store["r1"]
    IN \E o \in OpenIntervals(db), c \in ClosedIntervals(db) :
        /\ OpenIntervals(db) = {o}
        /\ o.start_timestamp < c.start_timestamp
        /\ StopAt(db, <<c.start_timestamp>>, now, fresh("r1")).err = nil
        /\ \E d \in Durations :
            /\ o.start_timestamp + d > c.start_timestamp
            /\ StopFor(db, d, now, fresh("r1")).err = ErrInvalidStopTimestamp

\* C20: in every store, stop called with both a timestamp and a non-zero
\* duration, or with neither, returns ErrInvalidParam and leaves every table
\* as it was.
C20_StopRequiresOneParameter ==
    \A s \in Stores :
        LET db == store[s]
            refused == {stop(db, <<t>>, d, now, nextUUID) :
                            t \in Times, d \in Durations \ {0}}
                       \cup {stop(db, << >>, 0, now, nextUUID)}
        IN \A res \in refused : res.err = ErrInvalidParam /\ res.db = db

\* a replica holds an Open interval that StopAt(t) and StopFor(d) would each
\* close, and stop called with that t and that d together is refused
C20_Witness ==
    \E r \in Replicas, t \in Times, d \in Durations :
        LET db == store[r]
        IN /\ Cardinality(OpenIntervals(db)) = 1
           /\ StopAt(db, <<t>>, now, fresh(r)).err = nil
           /\ StopFor(db, d, now, fresh(r)).err = nil
           /\ stop(db, <<t>>, d, now, fresh(r)).err = ErrInvalidParam
           /\ db.interval_stop # {}

\* C21: on every replica StopAt(t) and StopFor(d) return sql.ErrNoRows when no
\* interval is Open and ErrMultipleOpenInterval when more than one is, the
\* store being left as it was; a stop that succeeds had exactly one Open
\* interval.
C21_StopNeedsOneOpenInterval ==
    \A r \in Replicas :
        LET db == store[r]
            calls == {StopAt(db, <<t>>, now, fresh(r)) : t \in Times}
                     \cup {StopFor(db, d, now, fresh(r)) : d \in Durations \ {0}}
            n == Cardinality({s \in db.interval_start :
                    /\ ~\E p \in db.interval_stop : p.start_uuid = s.uuid
                    /\ ~\E x \in db.interval_tombstone : x.start_uuid = s.uuid})
        IN \A res \in calls :
            /\ n = 0 => res.err = ErrNoRows /\ res.db = db
            /\ n > 1 => res.err = ErrMultipleOpenInterval /\ res.db = db
            /\ res.err = nil => n = 1

\* one replica holds two Open intervals and its stops are refused, the other
\* holds none after a stop and its stops are refused too
C21_Witness ==
    \E r, q \in Replicas :
        /\ Cardinality(OpenIntervals(store[r])) = 2
        /\ \E t \in Times : \E o \in OpenIntervals(store[r]) :
            /\ t > o.start_timestamp
            /\ StopAt(store[r], <<t>>, now, fresh(r)).err = ErrMultipleOpenInterval
        /\ OpenIntervals(store[q]) = {}
        /\ store[q].interval_stop # {}
        /\ StopFor(store[q], 1, now, fresh(q)).err = ErrNoRows

\* C22: Continue(t, id) called while an interval is Open returns
\* ErrExistingOpenInterval and leaves the store as it was.
C22_ContinueRefusesOpenInterval ==
    LET db == store["r1"]
    IN OpenIntervals(db) # {} =>
        \A t \in Times, id \in Opt(IDs(db)) :
            \A res \in Continue(db, t, id, now, fresh("r1")) :
                res.err = ErrExistingOpenInterval /\ res.db = db

\* the names of the Effective tags of the interval uuid
EffectiveTagNames(db, uuid) == {g.tag : g \in EffectiveTags(db, uuid)}

\* the previous interval of continue(t, id) in the words of the spec: the Live
\* interval with the greatest start_timestamp when id is empty, the Live
\* interval with that id otherwise
PreviousIntervals(db, id) ==
    IF id = << >>
        THEN {s \in LiveStarts(db) :
                \A o \in LiveStarts(db) : o.start_timestamp <= s.start_timestamp}
        ELSE {s \in LiveStarts(db) : s.id = id[1]}

\* C23: a Continue(t, id) that returns no error inserts one interval_start row
\* at t whose Effective tag names are those of the previous interval at the
\* time of the call, and every row the store held is still there.
C23_ContinueCopiesEffectiveTags ==
    LET db == store["r1"]
    IN \A t \in Times, id \in Opt(IDs(db)) :
        \A res \in Continue(db, t, id, now, fresh("r1")) :
            res.err = nil =>
                /\ \A T \in EventTables : db[T] \subseteq res.db[T]
                /\ \E s \in res.db.interval_start, prev \in PreviousIntervals(db, id) :
                    /\ res.db.interval_start \ db.interval_start = {s}
                    /\ s.start_timestamp = t
                    /\ EffectiveTagNames(res.db, s.uuid) = EffectiveTagNames(db, prev.uuid)
                    /\ \A g \in res.db.interval_tags \ db.interval_tags :
                        g.interval_start_uuid = s.uuid
                    /\ res.db.interval_tags_tombstone = db.interval_tags_tombstone

\* the last Live interval has an Effective tag and an untagged one, and
\* Continue succeeds both without id and with the id of that interval
C23_Witness ==
    LET db == store["r1"]
    IN \E prev \in LiveStarts(db) :
        /\ \A o \in LiveStarts(db) : o.start_timestamp <= prev.start_timestamp
        /\ EffectiveTagNames(db, prev.uuid) # {}
        /\ \E g \in db.interval_tags :
            /\ g.interval_start_uuid = prev.uuid
            /\ g.tag \notin EffectiveTagNames(db, prev.uuid)
        /\ \E t \in Times :
            /\ \E res \in Continue(db, t, << >>, now, fresh("r1")) : res.err = nil
            /\ \E res \in Continue(db, t, <<prev.id>>, now, fresh("r1")) : res.err = nil

\* C24: with no Open interval and t outside every Live closed interval,
\* Continue(t, id) returns ErrNotFound exactly when no Live interval is
\* eligible as the previous one, and returns no error otherwise, whatever the
\* tags of that interval; when an interval is Open or t is inside a Live
\* closed interval the error returned is not ErrNotFound.
C24_ContinueNotFoundOnlyWithoutPrevious ==
    LET db == store["r1"]
    IN \A t \in Times, id \in Opt(IDs(db)) :
        \A res \in Continue(db, t, id, now, fresh("r1")) :
            IF \/ OpenIntervals(db) # {}
               \/ \E c \in ClosedIntervals(db) :
                    c.start_timestamp <= t /\ t < c.stop_timestamp
                THEN res.err # nil /\ res.err # ErrNotFound
            ELSE IF PreviousIntervals(db, id) = {} THEN res.err = ErrNotFound
            ELSE res.err = nil

\* C25: Tag(id, tags) on a Live interval returns ErrDuplicatedIntervalTag when
\* a requested tag is Effective on the interval or occurs twice in the
\* request, the store being left as it was; otherwise it returns no error and
\* adds one Effective interval_tags row per requested tag and nothing else
\* but the missing tag names.
C25_TagRefusesDuplicates ==
    LET db == store["r1"]
    IN \A s \in LiveStarts(db), tags \in TagLists :
        LET res == Tag(db, s.id, tags, now, fresh("r1"))
            added == res.db.interval_tags \ db.interval_tags
        IN IF \/ \E i \in 1..Len(tags) : tags[i] \in EffectiveTagNames(db, s.uuid)
              \/ \E i, j \in 1..Len(tags) : i # j /\ tags[i] = tags[j]
            THEN res.err = ErrDuplicatedIntervalTag /\ res.db = db
           ELSE /\ res.err = nil
                /\ \A T \in EventTables : db[T] \subseteq res.db[T]
                /\ Cardinality(added) = Len(tags)
                /\ \A i \in 1..Len(tags) :
                    \E g \in added \cap EffectiveTags(res.db, s.uuid) : g.tag = tags[i]
                /\ \A g \in added : g.interval_start_uuid = s.uuid
                /\ {g.name : g \in res.db.tags} =
                        {g.name : g \in db.tags} \cup {tags[i] : i \in 1..Len(tags)}
                /\ \A T \in EventTables \ {"tags", "interval_tags"} : res.db[T] = db[T]

\* a Live interval has an Effective tag and one that was untagged: tagging
\* it with the untagged one is accepted, with the untagged one twice or with
\* both it is refused
C25_Witness ==
    LET db == store["r1"]
    IN \E s \in LiveStarts(db), g, h \in db.interval_tags :
        /\ g.interval_start_uuid = s.uuid /\ g \in EffectiveTags(db, s.uuid)
        /\ h.interval_start_uuid = s.uuid
        /\ h.tag \notin EffectiveTagNames(db, s.uuid)
        /\ Tag(db, s.id, <<h.tag>>, now, fresh("r1")).err = nil
        /\ Tag(db, s.id, <<h.tag, h.tag>>, now, fresh("r1")).err = ErrDuplicatedIntervalTag
        /\ Tag(db, s.id, <<h.tag, g.tag>>, now, fresh("r1")).err = ErrDuplicatedIntervalTag

\* the elements of the list tags
Listed(tags) == {tags[i] : i \in 1..Len(tags)}

\* C26: Untag(id, tags) on a Live interval returns no error; afterwards the
\* Effective tags of the interval are those it had whose name is not listed,
\* each new interval_tags_tombstone row points to a row that was Effective on
\* the interval with a listed name, one row each, and nothing else changes.
C26_UntagRemovesListedTags ==
    LET db == store["r1"]
    IN \A s \in LiveStarts(db), tags \in TagLists :
        LET res == Untag(db, s.id, tags, now, fresh("r1"))
            hit == {g \in EffectiveTags(db, s.uuid) : g.tag \in Listed(tags)}
            added == res.db.interval_tags_tombstone \ db.interval_tags_tombstone
        IN /\ res.err = nil
           /\ EffectiveTags(res.db, s.uuid) = EffectiveTags(db, s.uuid) \ hit
           /\ db.interval_tags_tombstone \subseteq res.db.interval_tags_tombstone
           /\ {x.interval_tag_uuid : x \in added} = {g.uuid : g \in hit}
           /\ Cardinality(added) = Cardinality(hit)
           /\ \A T \in EventTables \ {"interval_tags_tombstone"} : res.db[T] = db[T]

\* a Live interval has an Effective tag and one that was untagged: Untag of
\* the untagged one changes nothing, Untag of both leaves the interval
\* without Effective tag
C26_Witness ==
    LET db == store["r1"]
    IN \E s \in LiveStarts(db), g, h \in db.interval_tags :
        /\ g.interval_start_uuid = s.uuid /\ g \in EffectiveTags(db, s.uuid)
        /\ h.interval_start_uuid = s.uuid
        /\ h.tag \notin EffectiveTagNames(db, s.uuid)
        /\ Untag(db, s.id, <<h.tag>>, now, fresh("r1")).db = db
        /\ EffectiveTags(Untag(db, s.id, <<h.tag, g.tag>>, now, fresh("r1")).db, s.uuid) = {}

\* C27: Untag(id, tags) with an id that no Live interval has, unknown or of a
\* deleted interval, returns ErrNotFound and leaves the store as it was.
C27_UntagUnknownIsNotFound ==
    LET db == store["r1"]
    IN \A id \in IDs(db), tags \in TagLists :
        (~\E s \in db.interval_start : s.id = id /\ ~Tombstoned(db, s.uuid)) =>
            LET res == Untag(db, id, tags, now, fresh("r1"))
            IN res.err = ErrNotFound /\ res.db = db

\* a deleted interval still has an Effective tag row: Untag of that tag by
\* its id, and by an id no interval has, returns ErrNotFound
C27_Witness ==
    LET db == store["r1"]
    IN \E s \in db.interval_start, g \in db.interval_tags :
        /\ Tombstoned(db, s.uuid)
        /\ g \in EffectiveTags(db, s.uuid)
        /\ Untag(db, s.id, <<g.tag>>, now, fresh("r1")).err = ErrNotFound
        /\ Untag(db, NextID(db), <<g.tag>>, now, fresh("r1")).err = ErrNotFound
        /\ LiveStarts(db) # {}

\* C28: Tag(id, tags) with an id that no Live interval has, unknown or of a
\* deleted interval, returns ErrNotFound and leaves the store as it was.
C28_TagUnknownIsNotFound ==
    LET db == store["r1"]
    IN \A id \in IDs(db), tags \in TagLists :
        (~\E s \in db.interval_start : s.id = id /\ ~Tombstoned(db, s.uuid)) =>
            LET res == Tag(db, id, tags, now, fresh("r1"))
            IN res.err = ErrNotFound /\ res.db = db

\* C29: Delete(id) of an interval of the store returns no error, after which
\* the interval is not Live, is in no List result, is not what Current
\* returns and is not Open, so that a Start is not refused for an Open
\* interval when it was the only one; a second Delete(id) returns no error and
\* changes nothing, the interval having exactly one interval_tombstone row.
C29_DeleteRemovesInterval ==
    LET db == store["r1"]
    IN \A s \in db.interval_start :
        LET res == Delete(db, s.id, now, fresh("r1"))
            again == Delete(res.db, s.id, now, after(fresh("r1"), res.used))
        IN /\ res.err = nil
           /\ \E x \in res.db.interval_tombstone : x.start_uuid = s.uuid
           /\ \A since \in 0..MaxTime, until \in 0..(MaxTime + MaxDuration + 1) :
                \A x \in List(res.db, since, until) : x.uuid # s.uuid
           /\ \A cur \in Current(res.db) : cur = << >> \/ cur[1].uuid # s.uuid
           /\ s \notin OpenIntervals(res.db)
           /\ OpenIntervals(db) \subseteq {s} =>
                \A t \in Times :
                    Start(res.db, t, << >>, now, after(fresh("r1"), res.used)).err
                        # ErrExistingOpenInterval
           /\ again.err = nil
           /\ again.db = res.db
           /\ Cardinality({x \in again.db.interval_tombstone : x.start_uuid = s.uuid}) = 1

\* the only Open interval can be deleted, after which a Start is accepted, and
\* the store holds a closed interval and a deleted one whose second Delete
\* changes nothing
C29_Witness ==
    LET db == store["r1"]
    IN \E s \in OpenIntervals(db), d \in db.interval_start :
        /\ OpenIntervals(db) = {s}
        /\ Current(db) # {<< >>}
        /\ Tombstoned(db, d.uuid)
        /\ Delete(db, d.id, now, fresh("r1")).db = db
        /\ ClosedIntervals(db) # {}
        /\ LET res == Delete(db, s.id, now, fresh("r1"))
           IN /\ Current(res.db) = {<< >>}
              /\ Start(res.db, s.start_timestamp, << >>, now, after(fresh("r1"), 1)).err = nil

\* C30: Current returns nil when no interval is Open, and otherwise the only
\* Open interval with its Effective tags, a tag removed by Untag left out.
C30_CurrentReturnsEffectiveTags ==
    LET db == store["r1"]
    IN \A cur \in Current(db) :
        IF OpenIntervals(db) = {} THEN cur = << >>
        ELSE \A o \in OpenIntervals(db) :
                OpenIntervals(db) = {o} =>
                    /\ cur # << >>
                    /\ cur[1].uuid = o.uuid
                    /\ cur[1].start_timestamp = o.start_timestamp
                    /\ \A name \in TagNames :
                        cur[1].tags[name] =
                            Cardinality({g \in EffectiveTags(db, o.uuid) : g.tag = name})

\* the bounds a List call is given: every instant from before the first start
\* to after the last stop
ListBounds == 0..(MaxTime + MaxDuration + 1)

C32_ListIntersectingIntervals ==
    LET db == store["r1"]
    IN \A since \in ListBounds, until \in ListBounds :
        \A c \in ClosedIntervals(db) :
            c.start_timestamp < until /\ since < c.stop_timestamp /\ since < until =>
                \A q \in ListOrdered(db, since, until) :
                    \E i \in 1..Len(q) : q[i].uuid = c.uuid

\* the rows of table T of db that C33 expects db to offer: all of them when
\* its sync_history is empty, those with created_at >= max(sync_timestamp)
\* otherwise
Offered(db, T) ==
    {x \in db[T] :
        \A w \in db.sync_history :
            (\A v \in db.sync_history : v <= w) => x.created_at >= w}

\* the sequence q holds each row of S once, in ascending created_at
OnceInCreatedAtOrder(q, S) ==
    /\ Len(q) = Cardinality(S)
    /\ {q[i] : i \in 1..Len(q)} = S
    /\ \A i \in 1..(Len(q) - 1) : q[i].created_at <= q[i + 1].created_at

\* what the six selection queries return on db is what C33 expects
SelectsOffered(db) ==
    /\ LET names == getNewTags(db)
           created(n) == (CHOOSE g \in db.tags : g.name = n).created_at
       IN /\ Len(names) = Cardinality(Offered(db, "tags"))
          /\ {names[i] : i \in 1..Len(names)} = {g.name : g \in Offered(db, "tags")}
          /\ \A i \in 1..(Len(names) - 1) : created(names[i]) <= created(names[i + 1])
    /\ \A q \in getNewIntervalStart(db) :
        OnceInCreatedAtOrder(q,
            {[uuid |-> x.uuid, start_timestamp |-> x.start_timestamp,
              created_at |-> x.created_at] : x \in Offered(db, "interval_start")})
    /\ OnceInCreatedAtOrder(getNewIntervalStop(db), Offered(db, "interval_stop"))
    /\ OnceInCreatedAtOrder(getNewIntervalTombstone(db), Offered(db, "interval_tombstone"))
    /\ OnceInCreatedAtOrder(getNewIntervalTags(db), Offered(db, "interval_tags"))
    /\ OnceInCreatedAtOrder(getNewIntervalTagsTombstone(db),
                            Offered(db, "interval_tags_tombstone"))

\* C33: for each of the six event tables, the replica and the relay, the
\* relay seeing the watermark of the replica in its temporary sync_history,
\* offer their rows with created_at >= max(sync_timestamp), all their rows
\* when sync_history is empty, each once and in ascending created_at.
C33_OfferedRowsSinceWatermark ==
    /\ SelectsOffered(store["r1"])
    /\ SelectsOffered(setupLastSyncTimestamp(store[Relay],
                                             getLastSyncTimestamp(store["r1"])))

\* the replica has a watermark, a row created at the watermark, which it
\* offers, and a row of the same table created before, which it does not; the
\* relay holds a row created before the watermark too
C33_Witness ==
    LET db == store["r1"]
        remote == setupLastSyncTimestamp(store[Relay], getLastSyncTimestamp(db))
    IN /\ db.sync_history # {}
       /\ \E x, y \in db.interval_start :
            /\ x.created_at = Max(db.sync_history)
            /\ y.created_at < x.created_at
            /\ \E q \in getNewIntervalStart(db) : Len(q) = 1 /\ q[1].uuid = x.uuid
       /\ \E z \in remote.interval_start : z.created_at < Max(db.sync_history)
       /\ \E q \in getNewIntervalStart(remote) : Len(q) < Cardinality(remote.interval_start)

\* what C34 expects of the start command run at t on db, res being what it
\* returned
StartCommandAsSpecified(db, t, res) ==
    LET newStarts == res.db.interval_start \ db.interval_start
        newStops == res.db.interval_stop \ db.interval_stop
    IN /\ \A o \in OpenIntervals(db) :
            OpenIntervals(db) = {o} /\ o.start_timestamp < t =>
                /\ res.err = nil
                /\ \E p \in newStops :
                    newStops = {p} /\ p.start_uuid = o.uuid /\ p.stop_timestamp = t
                /\ \E n \in newStarts :
                    /\ newStarts = {n} /\ n.start_timestamp = t
                    /\ OpenIntervals(res.db) = {n}
       /\ OpenIntervals(db) = {} =>
                /\ res.err = nil
                /\ newStops = {}
                /\ \E n \in newStarts :
                    /\ newStarts = {n} /\ n.start_timestamp = t
                    /\ OpenIntervals(res.db) = {n}
       /\ res.err = nil => res.db.interval_tombstone = db.interval_tombstone

\* C34 as stated: the start command run at t with one Open interval that
\* started before t stops it at t and opens an interval at t, the only Open
\* one afterwards; run with no Open interval it opens an interval at t and
\* stops none.
C34_StartCommandClosesAndOpens ==
    LET db == store["r1"]
    IN \A t \in Times, tags \in TagLists :
        StartCommandAsSpecified(db, t, StartCmdRun(db, t, tags, now, fresh("r1")))

\* C34 amended: the same when t is not inside a Live closed interval and no
\* Live interval starts between the start of the Open interval and t.
C34_StartCommandClosesAndOpensWhenFree ==
    LET db == store["r1"]
    IN \A t \in Times, tags \in TagLists :
        (/\ ~\E c \in ClosedIntervals(db) : c.start_timestamp <= t /\ t < c.stop_timestamp
         /\ ~\E o \in OpenIntervals(db), s \in LiveStarts(db) :
                o.start_timestamp < s.start_timestamp /\ s.start_timestamp < t)
            => StartCommandAsSpecified(db, t, StartCmdRun(db, t, tags, now, fresh("r1")))

\* next to a deleted interval the store has one Open interval: the start
\* command run at a later instant stops it there and leaves one Open interval,
\* started at that instant
C34_Witness ==
    LET db == store["r1"]
    IN \E o \in OpenIntervals(db), t \in Times :
        /\ OpenIntervals(db) = {o}
        /\ db.interval_tombstone # {}
        /\ o.start_timestamp < t
        /\ LET res == StartCmdRun(db, t, <<"a">>, now, fresh("r1"))
           IN /\ res.err = nil
              /\ \E c \in ClosedIntervals(res.db) :
                    c.uuid = o.uuid /\ c.stop_timestamp = t
              /\ \E n \in OpenIntervals(res.db) :
                    OpenIntervals(res.db) = {n} /\ n.start_timestamp = t

\* C35: in a round of which every statement succeeded the local transaction
\* commits first and the relay transaction second: whatever the Commit calls
\* do, the first transaction that committed is the local one.
C35_LocalCommitsFirst ==
    \A r \in Replicas :
        \A x \in SyncCommitting(store[r], store[Relay], now) :
            /\ x.committed # << >> => x.committed[1] = "local"
            /\ x.err = nil => x.committed = <<"local", Relay>>

\* the event rows of db without created_at and the per-replica id
PayloadRows(db) == UNION {{<<T, Payload(T, x)>> : x \in db[T]} : T \in EventTables}

HeldOrTaken(from, to) ==
    \A T \in EventTables :
        \A x \in from[T] :
            \E y \in to[T] : Payload(T, y) = Payload(T, x) \/ Taken(TRUE, T, x, y)

C37_RelayRowsOrderIndependent ==
    \A a \in Sync(store["r1"], store[Relay], now) :
        \A b \in Sync(store["r2"], a.relay, now) :
            \A c \in Sync(store["r2"], store[Relay], now) :
                \A d \in Sync(store["r1"], c.relay, now) :
                    a.err = nil /\ b.err = nil /\ c.err = nil /\ d.err = nil
                        => PayloadRows(b.relay) = PayloadRows(d.relay)

\* the uuids of the intervals List, asked for a range that holds every
\* timestamp, and Current show on the tables db
Shown(db) ==
    {x.uuid : x \in List(db, 0, MaxTime + MaxDuration + 1)}
    \cup UNION {{q[i].uuid : i \in 1..Len(q)} : q \in Current(db)}

\* the interval_tags rows of db that have an interval_tags_tombstone
Untagged(db) ==
    {g \in db.interval_tags :
        \E x \in db.interval_tags_tombstone : x.interval_tag_uuid = g.uuid}

\* C38: an interval_start that has an interval_tombstone on a store has one
\* after every operation and every sync round, and List and Current of a
\* replica never show it again; an interval_tags row that has an
\* interval_tags_tombstone is never Effective again, so a tag taken off by
\* Untag is Effective again only by a new interval_tags row.
C38_TombstonedStaysTombstoned ==
    [][\A s \in Stores :
        /\ \A i \in store[s].interval_start :
                Tombstoned(store[s], i.uuid) =>
                    /\ Tombstoned(store'[s], i.uuid)
                    /\ s \in Replicas => i.uuid \notin Shown(store'[s])
        /\ \A g \in Untagged(store[s]) :
                g \notin EffectiveTags(store'[s], g.interval_start_uuid)]_vars

\* a replica holds an interval deleted on the other replica, the tombstone
\* having come by a sync round, and an interval_tags row taken off by Untag
C38_Witness ==
    \E r \in Replicas :
        /\ \E x \in store[r].interval_tombstone :
                x.uuid[1] # r /\ \E i \in store[r].interval_start : i.uuid = x.start_uuid
        /\ Untagged(store[r]) # {}

\* the Live intervals of db and the tag names x such that Untag took every
\* interval_tags row for x off the interval
UntaggedNames(db) ==
    {<<s, x>> \in LiveStarts(db) \X TagNames :
        /\ \E g \in Untagged(db) : g.interval_start_uuid = s.uuid /\ g.tag = x
        /\ countEffectiveTag(db, s.uuid, x) = 0}

\* C39: when Untag has taken tag x off a Live interval, Tag(id, [x]) returns
\* no error, the interval then has exactly one Effective interval_tags row
\* for x, which is a new row, and the rows taken off keep their tombstones.
C39_TagAfterUntagAddsNewRow ==
    \A r \in Replicas :
        \A p \in UntaggedNames(store[r]) :
            LET db == store[r]
                res == Tag(db, p[1].id, <<p[2]>>, now, fresh(r))
                now1 == {g \in EffectiveTags(res.db, p[1].uuid) : g.tag = p[2]}
            IN /\ res.err = nil
               /\ Cardinality(now1) = 1
               /\ now1 \cap db.interval_tags = {}
               /\ Untagged(db) \subseteq Untagged(res.db)
               /\ db.interval_tags_tombstone = res.db.interval_tags_tombstone

\* Untag has taken tag a off a Live interval, and Tag puts it again by a
\* second interval_tags row
C39_Witness ==
    \E p \in UntaggedNames(store["r1"]) :
        /\ p[2] = "a"
        /\ LET res == Tag(store["r1"], p[1].id, <<"a">>, now, fresh("r1"))
           IN /\ res.err = nil
              /\ Cardinality({g \in res.db.interval_tags :
                        g.interval_start_uuid = p[1].uuid /\ g.tag = "a"}) = 2

\* the ids Delete may be given that no interval_start row of db has
UnknownIDs(db) == (0..(NextID(db) + 1)) \ {s.id : s \in db.interval_start}

\* C40: Delete(id) with an id no interval_start row of the replica has returns
\* no error and leaves every table as it was: no interval_tombstone row is
\* added, none with a NULL start_uuid in particular.
C40_DeleteUnknownIsNoOp ==
    \A r \in Replicas :
        \A id \in UnknownIDs(store[r]) :
            LET res == Delete(store[r], id, now, fresh(r))
            IN /\ res.err = nil
               /\ res.db = store[r]
               /\ \A x \in res.db.interval_tombstone :
                    \E s \in res.db.interval_start : s.uuid = x.start_uuid

\* a replica holds a Live interval and a deleted one, and Delete is called
\* with the id that follows the last one
C40_Witness ==
    LET db == store["r1"]
    IN /\ LiveStarts(db) # {}
       /\ db.interval_tombstone # {}
       /\ NextID(db) \in UnknownIDs(db)
       /\ Delete(db, NextID(db), now, fresh("r1")).db = db

====
